---- MODULE Spec2Model ----
(***************************************************************************)
(* Verification model of the car-catalogue crawler (app/main.py,           *)
(* app/repository.py, app/panorama_parser.py, app/photo_parser.py,         *)
(* app/photo_downloader.py, app/panorama_downloader.py, app/db.py).        *)
(*                                                                         *)
(* The specifications of this module share its variables:                  *)
(*   Spec          the stage orchestrator: one worker pool, the per-unit   *)
(*                 retry wrappers and the as_completed loop of main();     *)
(*   SpecPipeline  the pools of main() one after another;                  *)
(*   SpecRun       the stages of one run of main() and its report;         *)
(*   SpecTree      the tree bootstrap and the units of the first stages;   *)
(*   SpecLock      the shared statistics record under its mutex;           *)
(*   SpecRepo      the reconciliation repository: the ten upsert_*         *)
(*                 functions applied to storage;                           *)
(*   SpecRace      two threads upserting the same key;                     *)
(*   SpecResolver  find_ext_id_for_spec, one client call per step;         *)
(*   SpecPhotos    parse_all_photos inside its retry wrapper;              *)
(*   SpecDownload  download_image, one request per step;                   *)
(*   SpecStep      the download step of one stored row;                    *)
(*   SpecClassify  the except branch of a wrapper on an error message;     *)
(*   SpecNested    the size of the nested frame pool;                      *)
(*   SpecFrames    download_all_panorama_photos_for_spec and its pool;     *)
(*   SpecPaths     the photo tables between upserts and downloads;         *)
(*   SpecChunks    the records parse_all_photos writes chunk by chunk;     *)
(*   SpecColors    parse_panorama_colors with its backfill;                *)
(*   SpecAttempt   one characteristics unit and its session;               *)
(*   SpecOnly      the photo stages under the 360-only switch.             *)
(* A specification leaves the variables of the others unchanged.           *)
(***************************************************************************)
EXTENDS Integers, Sequences, FiniteSets, TLC

VARIABLES
    \* ---- stage orchestrator (app/main.py) ----
    stage,              \* which per-unit wrapper this pool runs
    workers,            \* settings.parse_workers, the pool size
    queue,              \* submitted units no worker has picked up yet (FIFO)
    futures,            \* unit -> "none" | "queued" | "running" | "returned" | "raised"
    attempt,            \* unit -> loop variable `attempt` of the wrapper
    calls,              \* unit -> outcomes of the handler invocations, in order
    sleeps,             \* unit -> durations (ms) of the time.sleep calls, in order
    starts,             \* unit -> number of times a worker started the wrapper
    progress_counter,   \* the shared statistics record of the stage
    collected,          \* futures main() has taken from as_completed
    mainpc,             \* position of main(): "submit" | "collect" | "done"
    unit_ids,           \* the work-unit ids of the stage (series_ids / spec_ids)
    \* ---- reconciliation repository (app/repository.py) ----
    entity,             \* the table whose upsert this behaviour exercises
    storage,            \* table name -> set of stored rows
    last_batch,         \* the batch of the upsert call under observation
    last_before,        \* the rows of the table when that call started
    last_result,        \* what the call returned: counters and per-record trace
    nth,                \* 0: no call observed; 1, 2: the batch was applied once, twice
    \* ---- ext-id resolver (app/panorama_parser.py) ----
    res_pc,             \* position of find_ext_id_for_spec
    spec_id,            \* its argument
    found_candidates,   \* candidates of the page not probed yet
    last_probe,         \* the latest get_pano_baseinfo call and its response
    ext_id_from_response, \* ext.Id of the response to the direct probe
    resolved,           \* the returned id (NoneInt for None)
    client_calls,       \* the calls of the site client so far, in order
    \* ---- image downloader (app/photo_downloader.py) ----
    dl_pc,              \* position of download_image
    file,               \* what file_path holds
    prior,              \* what file_path held when the call started
    parent_dir,         \* file_path.parent exists
    prior_parent,       \* whether file_path.parent existed when the call started
    dl_attempt,         \* loop variable `attempt`
    requests_made,      \* number of requests.get calls
    unlinked,           \* file_path.unlink() was called
    dl_result,          \* "none" | "True" | "False"
    dl_sleeps,          \* durations (ms) of the time.sleep calls, in order
    dl_reason,          \* what ended the call: "exists" | "saved" | "network" |
                        \*   "content_type" | "size" | "signature"
    \* ---- the run of main() (app/main.py) ----
    run_pc,             \* position of main() after the bootstrap
    settings,           \* the stage switches of the configuration
    entered,            \* stages whose body main() has entered
    pools,              \* stage -> units and failed units of its pool
    summary_emitted,    \* the final report was written
    \* ---- one download step of a stored row (app/photo_downloader.py,
    \*      app/panorama_downloader.py) ----
    step_pc,            \* position of the step
    photo,              \* the Photo or PanoramaPhoto object the step was handed
    local_path,         \* the row's local_path column
    safe_url,           \* the URL download_image requests
    file_path,          \* the destination handed to download_image
    step_stats,         \* the statistics counter the step incremented
    \* ---- two worker threads upserting at once (app/repository.py,
    \*      app/db.py) ----
    upsert_entity,      \* the entity both threads upsert
    committed,          \* the committed rows of its table
    tx,                 \* thread -> its transaction (position, record, pending row)
    \* ---- the shared statistics record and its mutex (app/main.py) ----
    lock_owner,         \* the thread inside the with-block of the mutex, 0 when free
    stats,              \* the counters of the shared record
    thread,             \* unit -> its worker thread (position, pending updates)
    contributed,        \* counter -> sum of the updates the threads have completed
    \* ---- the tree bootstrap and the units of the first stages (app/main.py) ----
    tree_pc,            \* position of main()
    tree_settings,      \* force_reparse, parse_photos, download_photos
    original_series_ids,\* the series ids of the parsed tree
    series_ids,         \* the ids _filter_series_for_reparse kept
    todo,               \* units of the running pool that have not run yet
    series_ids_for_photos,\* the units of the photo-metadata stage
    series_ids_for_download,\* the units of the photo-download stage
    \* ---- the sequence of the pools of main() (app/main.py) ----
    position,           \* the stage whose pool main() is running
    panoramas_already_parsed,\* the flag of main() set by the early panorama stage
    \* ---- one unit of the photo-metadata stage (app/main.py, app/photo_parser.py) ----
    pa_pc,              \* position of the unit: in the loop of parse_all_photos or returned
    combinations,       \* spec x colour x category combinations of the series
    processed_combinations,\* combinations the loop has taken
    all_photos_batch,   \* number of parsed records buffered and not written
    total_errors,       \* the error count parse_all_photos returns
    pa_attempt,         \* loop variable attempt of _parse_photos_for_series
    pa_sleeps,          \* durations (ms) of its time.sleep calls, in order
    photos_errors,      \* progress_counter photos_errors
    contended,          \* chunk writes inside the loop that failed with a deadlock
    \* ---- the except branch of a per-unit wrapper on one error message (app/main.py) ----
    \*   error_msg (first line of str(exc), as words), the loop variable
    \*   attempt, and the decision: none yet, sleep_continue or count_error
    except_branch,
    \* ---- the size of the nested frame pool of the panorama download (app/main.py) ----
    \*   settings.parse_workers and photo_workers_per_spec (0 before it is
    \*   computed)
    nested_pool,
    \* ---- download_all_panorama_photos_for_spec and its nested pool (app/panorama_downloader.py) ----
    \*   the call: pc, the number of listed rows, max_workers, frame -> its
    \*   future, frame -> number of submits, the stats dictionary, and the
    \*   frame inside a with-lock block (0 when free)
    frames_call,
    \* ---- the records of one series' enumeration and their chunked writes (app/photo_parser.py) ----
    \*   the call: pc, combinations taken, the followed records of all pages so
    \*   far, those of all_photos_batch, len(all_photos_batch), and the rows of
    \*   table photos with a followed id
    enumeration,
    \* ---- one call of parse_panorama_colors (app/panorama_parser.py) ----
    \*   the call: pc, spec_id, the resolved ext_id, the parsed colours, table
    \*   panorama_colors before the call, after the upsert and now
    colors_call,
    \* ---- one unit of the characteristics stage and its session (app/main.py, app/db.py) ----
    \*   the unit: pc, loop variable attempt, the error handled, the scraped
    \*   lists, and the tables as the session sees them, as stored when the
    \*   attempt started and as stored now
    series_attempt,
    \* ---- the 360-only restrictions of the photo stages (app/main.py, app/photo_parser.py, app/photo_downloader.py) ----
    \*   main() around the photo stages: pc, the 360-only settings, the spec
    \*   ids of the stored panorama colours, specs_with_panorama, the Photo
    \*   rows of the series, the (spec, category) pairs listed and the rows
    \*   selected for download
    only_360

repoVars == <<entity, storage, last_batch, last_before, last_result, nth>>

resVars == <<res_pc, spec_id, found_candidates, last_probe,
             ext_id_from_response, resolved, client_calls>>

dlVars == <<dl_pc, file, prior, prior_parent, parent_dir, dl_attempt, requests_made,
            unlinked, dl_result, dl_sleeps, dl_reason>>

runVars == <<run_pc, settings, entered, pools, summary_emitted>>

stepVars == <<step_pc, photo, local_path, safe_url, file_path, step_stats>>

raceVars == <<upsert_entity, committed, tx>>

lockVars == <<lock_owner, stats, thread, contributed>>

treeVars == <<tree_pc, tree_settings, original_series_ids, series_ids, todo, series_ids_for_photos, series_ids_for_download>>

pipeVars == <<position, panoramas_already_parsed>>

paVars == <<pa_pc, combinations, processed_combinations, all_photos_batch, total_errors, pa_attempt, pa_sleeps, photos_errors, contended>>

clVars == <<except_branch>>

nwVars == <<nested_pool>>

frVars == <<frames_call>>

chVars == <<enumeration>>

coVars == <<colors_call>>

atVars == <<series_attempt>>

onVars == <<only_360>>

orchVars == <<stage, workers, queue, futures, attempt, calls, sleeps, starts,
              progress_counter, collected, mainpc, unit_ids>>

----------------------------------------------------------------------------
(* Bounds of the orchestrator model. *)
MaxUnits == 2
MaxWorkers == 2

UnitIds == 1..MaxUnits

(* Program constants of the wrappers. *)
max_retries == 3
retry_delay_ms == 100

Stages == {"characteristics", "photos", "photo_download", "panoramas", "panorama_download"}

(* Error messages a handler can raise, by the substrings the wrappers look   *)
(* for: "deadlock" carries the deadlock signature, "nopano" one of the       *)
(* no-panorama phrases, "missing" is the ValueError of a missing series or   *)
(* spec row (it carries neither, like any other error).                      *)
Errors == {"deadlock", "missing", "nopano"}

(* What one invocation of the handler of a stage can end in. The           *)
(* no-panorama phrases occur only in messages of the panorama parser, and  *)
(* "unresolved" is parse_panorama_colors returning its zero statistics     *)
(* because find_ext_id_for_spec yielded None.                              *)
Outcomes(st) ==
    {"ok"} \cup (IF st = "panoramas" THEN Errors \cup {"unresolved"}
                 ELSE Errors \ {"nopano"})

is_deadlock(error_msg) == error_msg = "deadlock"

is_no_panorama(error_msg) == error_msg = "nopano"

(* A retry test that forgets the attempt bound. *)
ShouldRetryUnbounded(att, error_msg) == is_deadlock(error_msg)

(* The retry test of the except branch: main.py:167, 235, 295, 393, 450. *)
ShouldRetry(att, error_msg) == att < max_retries - 1 /\ is_deadlock(error_msg)

(* time.sleep(retry_delay * (attempt + 1)), in milliseconds. *)
Backoff(att) == retry_delay_ms * (att + 1)

(* `for attempt in range(max_retries)`: the next iteration, or the end of  *)
(* the loop, after which the wrapper returns None.                         *)
NextIteration(u) ==
    IF attempt[u] + 1 < max_retries
    THEN /\ attempt' = [attempt EXCEPT ![u] = @ + 1]
         /\ UNCHANGED futures
    ELSE /\ futures' = [futures EXCEPT ![u] = "returned"]
         /\ UNCHANGED attempt

(* The success path of every wrapper: counters updated under the lock,     *)
(* then `return`.                                                          *)
Succeed(u) ==
    /\ progress_counter' = [progress_counter EXCEPT !.parsed = @ + 1]
    /\ futures' = [futures EXCEPT ![u] = "returned"]
    /\ UNCHANGED <<attempt, sleeps>>

(* `time.sleep(...)` followed by `continue`. *)
SleepAndContinue(u) ==
    /\ sleeps' = [sleeps EXCEPT ![u] = Append(@, Backoff(attempt[u]))]
    /\ NextIteration(u)
    /\ UNCHANGED progress_counter

(* An except branch that counts the error and re-raises it, as the         *)
(* characteristics wrapper does.                                           *)
CountAndRaise(u) ==
    /\ progress_counter' = [progress_counter EXCEPT !.errors = @ + 1]
    /\ futures' = [futures EXCEPT ![u] = "raised"]
    /\ UNCHANGED <<attempt, sleeps>>

(* The tail of the except branch of the four photo/panorama wrappers: the  *)
(* error is counted and logged, and the wrapper returns only when this was *)
(* the last attempt; otherwise control falls to the end of the loop body   *)
(* and the for loop goes on.                                               *)
CountAndSwallow(u) ==
    /\ progress_counter' = [progress_counter EXCEPT !.errors = @ + 1]
    /\ IF attempt[u] = max_retries - 1
       THEN /\ futures' = [futures EXCEPT ![u] = "returned"]
            /\ UNCHANGED attempt
       ELSE NextIteration(u)
    /\ UNCHANGED sleeps

(* One iteration of the loop of _parse_and_store_series. *)
parse_and_store_series(u) ==
    /\ stage = "characteristics"
    /\ futures[u] = "running"
    /\ \E o \in Outcomes(stage) :
         /\ calls' = [calls EXCEPT ![u] = Append(@, o)]
         /\ IF o = "ok" THEN Succeed(u)
            ELSE IF ShouldRetry(attempt[u], o) THEN SleepAndContinue(u)
            ELSE /\ progress_counter' = [progress_counter EXCEPT !.errors = @ + 1]
                 /\ futures' = [futures EXCEPT ![u] = "raised"]
                 /\ UNCHANGED <<attempt, sleeps>>
    /\ UNCHANGED <<stage, workers, queue, starts, collected, mainpc, unit_ids>>

(* One iteration of the loop of a wrapper that swallows its errors. *)
SwallowingWrapper(u) ==
    /\ futures[u] = "running"
    /\ \E o \in Outcomes(stage) :
         /\ calls' = [calls EXCEPT ![u] = Append(@, o)]
         /\ IF o = "ok" THEN Succeed(u)
            ELSE IF ShouldRetry(attempt[u], o) THEN SleepAndContinue(u)
            ELSE CountAndSwallow(u)
    /\ UNCHANGED <<stage, workers, queue, starts, collected, mainpc, unit_ids>>

parse_photos_for_series(u) == stage = "photos" /\ SwallowingWrapper(u)

download_photos_for_series(u) == stage = "photo_download" /\ SwallowingWrapper(u)

download_panoramas_for_spec(u) == stage = "panorama_download" /\ SwallowingWrapper(u)

(* One iteration of the loop of _parse_panoramas_for_spec: the no-panorama *)
(* test comes before the retry test.                                       *)
parse_panoramas_for_spec(u) ==
    /\ stage = "panoramas"
    /\ futures[u] = "running"
    /\ \E o \in Outcomes(stage) :
         /\ calls' = [calls EXCEPT ![u] = Append(@, o)]
         /\ IF o \in {"ok", "unresolved"} THEN Succeed(u)
            ELSE IF is_no_panorama(o)
            THEN /\ progress_counter' =
                      [progress_counter EXCEPT !.parsed = @ + 1,
                                               !.skipped_no_panorama = @ + 1]
                 /\ futures' = [futures EXCEPT ![u] = "returned"]
                 /\ UNCHANGED <<attempt, sleeps>>
            ELSE IF ShouldRetry(attempt[u], o) THEN SleepAndContinue(u)
            ELSE CountAndSwallow(u)
    /\ UNCHANGED <<stage, workers, queue, starts, collected, mainpc, unit_ids>>

(* ---- the pool and the as_completed loop of main() ---- *)

Ascending(S) ==
    LET RECURSIVE asc(_)
        asc(T) == IF T = {} THEN <<>>
                  ELSE LET m == CHOOSE x \in T : \A y \in T : x <= y
                       IN <<m>> \o asc(T \ {m})
    IN asc(S)

(* The ids handed to executor.submit by the dict comprehension. *)
Submitted(ids) == ids

(* executor.submit(...) for every id of the stage. *)
Submit ==
    /\ mainpc = "submit"
    /\ queue' = Ascending(Submitted(unit_ids))
    /\ futures' = [u \in UnitIds |->
                      IF u \in Submitted(unit_ids) THEN "queued" ELSE "none"]
    /\ mainpc' = "collect"
    /\ UNCHANGED <<stage, workers, attempt, calls, sleeps, starts,
                   progress_counter, collected, unit_ids>>

Running == {u \in UnitIds : futures[u] = "running"}

(* A pool that stops handing out work once a unit has raised. *)
WorkerStartFailFast ==
    /\ queue # <<>>
    /\ Cardinality(Running) < workers
    /\ \A v \in UnitIds : futures[v] # "raised"
    /\ LET u == Head(queue) IN
         /\ futures' = [futures EXCEPT ![u] = "running"]
         /\ starts' = [starts EXCEPT ![u] = @ + 1]
    /\ queue' = Tail(queue)
    /\ UNCHANGED <<stage, workers, attempt, calls, sleeps,
                   progress_counter, collected, mainpc, unit_ids>>

(* A free worker thread takes the next work item and starts the wrapper. *)
WorkerStart ==
    /\ queue # <<>>
    /\ Cardinality(Running) < workers
    /\ LET u == Head(queue) IN
         /\ futures' = [futures EXCEPT ![u] = "running"]
         /\ starts' = [starts EXCEPT ![u] = @ + 1]
    /\ queue' = Tail(queue)
    /\ UNCHANGED <<stage, workers, attempt, calls, sleeps,
                   progress_counter, collected, mainpc, unit_ids>>

Finished == {u \in UnitIds : futures[u] \in {"returned", "raised"}}

(* One turn of `for future in as_completed(futures)`: future.result() is   *)
(* called inside try/except Exception: pass.                               *)
Collect(u) ==
    /\ mainpc = "collect"
    /\ u \in Finished \ collected
    /\ collected' = collected \cup {u}
    /\ UNCHANGED <<stage, workers, queue, futures, attempt, calls, sleeps,
                   starts, progress_counter, mainpc, unit_ids>>

(* as_completed is exhausted and the executor's with-block is left. *)
PoolDrained ==
    /\ mainpc = "collect"
    /\ collected = {u \in UnitIds : futures[u] # "none"}
    /\ mainpc' = "done"
    /\ UNCHANGED <<stage, workers, queue, futures, attempt, calls, sleeps,
                   starts, progress_counter, collected, unit_ids>>


----------------------------------------------------------------------------
(* The reconciliation repository: app/repository.py.                       *)

(* Bounds of the repository model. *)
MaxId == 2
MaxBatch == 2
MaxCombinations == 3
MaxWords == 3
MaxFrames == 2
MaxParseWorkers == 64

(* Python's None in an integer column or field. *)
NoneInt == -1

Entities == {"brands", "series", "specs", "param_titles", "param_values",
             "photo_colors", "photo_categories", "photos",
             "panorama_colors", "panorama_photos"}

(* A string of a String(512) column is modelled by its first 512           *)
(* characters and whatever follows them.                                   *)
Str(first, rest) == [first512 |-> first, rest |-> rest]

(* s[:512] *)
Trunc512(s) == [s EXCEPT !.rest = ""]

(* `x or ""` for an Optional[str] field. *)
OrEmpty(x) == IF x = "None" THEN "" ELSE x

Ids == 1..MaxId
Variants == {"a", "b"}
ItemNames == {Str("A", ""), Str("B", "x")}
SubNames == {"None", "", "s"}

(* The typed records of app/parser/parsers.py, over small value sets: x    *)
(* stands for one scrape of the record's attributes.                       *)
BrandData == {[id |-> i, name |-> x, logo_url |-> x] : i \in Ids, x \in Variants}

SeriesData ==
    {[id |-> i, brand_id |-> 1, name |-> x, is_new_energy |-> (x = "a")] :
        i \in Ids, x \in Variants}

SpecData ==
    {[id |-> i, series_id |-> 1, name |-> x, min_price |-> x] :
        i \in Ids, x \in Variants}

ParamTitleData ==
    {[series_id |-> 1, title_id |-> i, item_name |-> n,
      group_name |-> "g", item_type |-> "t"] : i \in Ids, n \in ItemNames}

ParamValueData ==
    {[specification_id |-> 1, title_id |-> 5, item_name |-> n,
      sub_name |-> u, value |-> x] :
        n \in ItemNames, u \in SubNames, x \in Variants}

PhotoColorData ==
    {[id |-> i, series_id |-> 1, color_type |-> "exterior", name |-> x,
      value |-> x, isonsale |-> (x = "a")] : i \in Ids, x \in Variants}

PhotoCategoryData ==
    {[id |-> i, series_id |-> s, name |-> x] : i \in {1}, s \in Ids, x \in Variants}

PhotoData ==
    {[id |-> i, series_id |-> 1, specification_id |-> 1, category_id |-> 1,
      color_id |-> 0, originalpic |-> x, specname |-> x] :
        i \in Ids, x \in Variants}

PanoramaColorData ==
    {[id |-> i, spec_id |-> 1, ext_id |-> e, base_color_name |-> "c",
      color_name |-> "c", color_value |-> "c", color_id |-> i] :
        i \in Ids, e \in {NoneInt, 7}}

PanoramaPhotoData ==
    {[id |-> i, spec_id |-> 1, color_id |-> 1, seq |-> i, url |-> x] :
        i \in Ids, x \in Variants}

Records(e) ==
    CASE e = "brands" -> BrandData
      [] e = "series" -> SeriesData
      [] e = "specs" -> SpecData
      [] e = "param_titles" -> ParamTitleData
      [] e = "param_values" -> ParamValueData
      [] e = "photo_colors" -> PhotoColorData
      [] e = "photo_categories" -> PhotoCategoryData
      [] e = "photos" -> PhotoData
      [] e = "panorama_colors" -> PanoramaColorData
      [] e = "panorama_photos" -> PanoramaPhotoData

Batches(e) == UNION {[1..n -> Records(e)] : n \in 0..MaxBatch}

(* The key a record or a row is deduplicated and looked up by. *)
KeyOf(e, r) ==
    CASE e = "param_titles" -> <<r.series_id, r.title_id>>
      [] e = "photo_categories" -> <<r.series_id, r.id>>
      [] e = "param_values" ->
            <<r.specification_id, r.title_id, Trunc512(r.item_name),
              OrEmpty(r.sub_name)>>
      [] OTHER -> <<r.id>>


(* What an upsert call starts from and what it returns: the table, the     *)
(* three counters, and for each record of the batch how it was counted     *)
(* and whether handling it touched the session.                            *)
Start(rows) ==
    [rows |-> rows, seen |-> {}, inserted |-> 0, updated |-> 0, skipped |-> 0,
     disp |-> <<>>, access |-> <<>>]

(* A mutation of Skip: the duplicate is written like a first occurrence. *)
SkipAsUpdate(st) ==
    [st EXCEPT !.updated = @ + 1,
               !.disp = Append(@, "updated"),
               !.access = Append(@, TRUE)]

(* `if key in seen: skipped += 1; continue` *)
Skip(st) ==
    [st EXCEPT !.skipped = @ + 1,
               !.disp = Append(@, "skipped"),
               !.access = Append(@, FALSE)]

(* The row an upsert inserts for a record. *)
Create(e, item) ==
    CASE e = "param_titles" -> [item EXCEPT !.item_name = Trunc512(@)]
      [] e = "param_values" ->
            [item EXCEPT !.item_name = Trunc512(@), !.sub_name = OrEmpty(@)]
      [] e = "photos" ->
            [id |-> item.id, series_id |-> item.series_id,
             specification_id |-> item.specification_id,
             category_id |-> item.category_id, color_id |-> item.color_id,
             originalpic |-> item.originalpic, specname |-> item.specname,
             local_path |-> "None"]
      [] e = "panorama_photos" ->
            [id |-> item.id, spec_id |-> item.spec_id,
             color_id |-> item.color_id, seq |-> item.seq, url |-> item.url,
             local_path |-> "None"]
      [] OTHER -> item

(* A mutation of Update: the existing row is replaced by the row an insert *)
(* of the record would write.                                              *)
ReplaceRow(e, row, item) == Create(e, item)

(* The columns an upsert writes into an existing row. *)
Update(e, row, item) ==
    CASE e = "brands" ->
            [row EXCEPT !.name = item.name, !.logo_url = item.logo_url]
      [] e = "series" ->
            [row EXCEPT !.brand_id = item.brand_id, !.name = item.name,
                        !.is_new_energy = item.is_new_energy]
      [] e = "specs" ->
            [row EXCEPT !.series_id = item.series_id, !.name = item.name,
                        !.min_price = item.min_price]
      [] e = "param_titles" ->
            [row EXCEPT !.item_name = Trunc512(item.item_name),
                        !.group_name = item.group_name,
                        !.item_type = item.item_type]
      [] e = "param_values" -> [row EXCEPT !.value = item.value]
      [] e = "photo_colors" ->
            [row EXCEPT !.series_id = item.series_id,
                        !.color_type = item.color_type, !.name = item.name,
                        !.value = item.value, !.isonsale = item.isonsale]
      [] e = "photo_categories" -> [row EXCEPT !.name = item.name]
      [] e = "photos" ->
            [row EXCEPT !.series_id = item.series_id,
                        !.specification_id = item.specification_id,
                        !.category_id = item.category_id,
                        !.color_id = item.color_id,
                        !.originalpic = item.originalpic,
                        !.specname = item.specname]
      [] e = "panorama_colors" ->
            [row EXCEPT !.spec_id = item.spec_id, !.ext_id = item.ext_id,
                        !.base_color_name = item.base_color_name,
                        !.color_name = item.color_name,
                        !.color_value = item.color_value,
                        !.color_id = item.color_id]
      [] e = "panorama_photos" ->
            [row EXCEPT !.spec_id = item.spec_id, !.color_id = item.color_id,
                        !.seq = item.seq, !.url = item.url]

(* session.query(Model).filter(<key> == item.<key>).first() *)
Existing(e, rows, item) == {r \in rows : KeyOf(e, r) = KeyOf(e, item)}

(* The body of upsert_brands, upsert_series, upsert_specs,                 *)
(* upsert_photo_colors, upsert_photo_categories, upsert_panorama_colors    *)
(* and upsert_panorama_photos: one pass over the batch, a duplicate key    *)
(* skipped before the query, an existing row updated, a new one added.     *)
QueryThenWrite(e, rows, items) ==
    LET RECURSIVE loop(_, _)
        loop(i, st) ==
            IF i > Len(items) THEN st
            ELSE LET item == items[i]
                     ex == Existing(e, st.rows, item)
                 IN IF KeyOf(e, item) \in st.seen THEN loop(i + 1, Skip(st))
                    ELSE IF ex # {}
                    THEN LET row == CHOOSE r \in ex : TRUE IN
                         loop(i + 1,
                              [st EXCEPT !.seen = @ \cup {KeyOf(e, item)},
                                         !.rows = (@ \ {row}) \cup {Update(e, row, item)},
                                         !.updated = @ + 1,
                                         !.disp = Append(@, "updated"),
                                         !.access = Append(@, TRUE)])
                    ELSE loop(i + 1,
                              [st EXCEPT !.seen = @ \cup {KeyOf(e, item)},
                                         !.rows = @ \cup {Create(e, item)},
                                         !.inserted = @ + 1,
                                         !.disp = Append(@, "inserted"),
                                         !.access = Append(@, TRUE)])
    IN loop(1, Start(rows))

upsert_brands(rows, items) == QueryThenWrite("brands", rows, items)

upsert_series(rows, items) == QueryThenWrite("series", rows, items)

upsert_specs(rows, items) == QueryThenWrite("specs", rows, items)

upsert_photo_colors(rows, items) == QueryThenWrite("photo_colors", rows, items)

upsert_photo_categories(rows, items) ==
    QueryThenWrite("photo_categories", rows, items)

upsert_panorama_colors(rows, items) ==
    QueryThenWrite("panorama_colors", rows, items)

upsert_panorama_photos(rows, items) ==
    QueryThenWrite("panorama_photos", rows, items)

(* INSERT ... ON CONFLICT (key) DO UPDATE SET ... of one deduplicated list *)
(* of values: a conflicting row gets the SET columns, any other value is   *)
(* inserted.                                                               *)
OnConflictDoUpdate(e, rows, values) ==
    LET hit(r) == {i \in 1..Len(values) : KeyOf(e, values[i]) = KeyOf(e, r)}
    IN {IF hit(r) = {} THEN r ELSE Update(e, r, values[CHOOSE i \in hit(r) : TRUE]) :
            r \in rows}
       \cup {Create(e, values[i]) :
               i \in {j \in 1..Len(values) : Existing(e, rows, values[j]) = {}}}

(* The body of upsert_param_titles and upsert_photos: the batch is         *)
(* deduplicated (first occurrence kept), written by one ON CONFLICT        *)
(* statement, and every written value is reported as inserted.             *)
DedupThenExecute(e, rows, items) ==
    LET first(i) == \A j \in 1..(i - 1) : KeyOf(e, items[j]) # KeyOf(e, items[i])
        RECURSIVE uniq(_)
        uniq(i) == IF i > Len(items) THEN <<>>
                   ELSE IF first(i) THEN <<items[i]>> \o uniq(i + 1)
                   ELSE uniq(i + 1)
        values_to_insert == uniq(1)
        skipped == Len(items) - Len(values_to_insert)
    IN IF values_to_insert = <<>>
       THEN [Start(rows) EXCEPT !.disp = [i \in 1..Len(items) |-> "skipped"],
                                !.access = [i \in 1..Len(items) |-> FALSE]]
       ELSE [rows |-> OnConflictDoUpdate(e, rows, values_to_insert),
             seen |-> {KeyOf(e, items[i]) : i \in 1..Len(items)},
             inserted |-> Len(values_to_insert),
             updated |-> 0,
             skipped |-> skipped,
             disp |-> [i \in 1..Len(items) |->
                         IF first(i) THEN "inserted" ELSE "skipped"],
             access |-> [i \in 1..Len(items) |-> first(i)]]

upsert_param_titles(rows, items) == DedupThenExecute("param_titles", rows, items)

upsert_photos(rows, items) == DedupThenExecute("photos", rows, items)

(* (specification_id, title_id, sub_name): the part of the key the stale   *)
(* rows are looked up by.                                                  *)
TitleKey(r) == <<r.specification_id, r.title_id, OrEmpty(r.sub_name)>>

(* A mutation of StaleRows: no candidate is taken for stale. *)
NoStaleRows(candidates, item_name) == {}

(* old_records_to_delete: the candidates whose item name is not the        *)
(* record's.                                                               *)
StaleRows(candidates, item_name) ==
    {r \in candidates : r.item_name # item_name}

(* upsert_param_values. The rows of the specs and titles of the batch are  *)
(* loaded once (existing_values_by_title); every record is then matched    *)
(* against that snapshot: snapshot rows of its title key with another item *)
(* name are deleted, a snapshot row with its item name gets the value, and *)
(* without one a new row is added. A snapshot row an earlier record of the *)
(* same call deleted is still found in the snapshot; deleting it again or  *)
(* assigning its value does nothing to the table.                          *)
upsert_param_values(rows, items) ==
    LET e == "param_values"
        snapshot == rows
        RECURSIVE loop(_, _)
        loop(i, st) ==
            IF i > Len(items) THEN st
            ELSE LET item == items[i]
                     item_name == Trunc512(item.item_name)
                     candidates == {r \in snapshot : TitleKey(r) = TitleKey(item)}
                     existing_correct == {r \in candidates : r.item_name = item_name}
                     old_records_to_delete == StaleRows(candidates, item_name)
                     kept == st.rows \ old_records_to_delete
                 IN IF KeyOf(e, item) \in st.seen THEN loop(i + 1, Skip(st))
                    ELSE IF existing_correct # {}
                    THEN loop(i + 1,
                              [st EXCEPT !.seen = @ \cup {KeyOf(e, item)},
                                         !.rows = {IF r \in existing_correct
                                                   THEN Update(e, r, item) ELSE r :
                                                      r \in kept},
                                         !.updated = @ + 1,
                                         !.disp = Append(@, "updated"),
                                         !.access = Append(@, TRUE)])
                    ELSE loop(i + 1,
                              [st EXCEPT !.seen = @ \cup {KeyOf(e, item)},
                                         !.rows = kept \cup {Create(e, item)},
                                         !.inserted = @ + 1,
                                         !.disp = Append(@, "inserted"),
                                         !.access = Append(@, TRUE)])
    IN loop(1, Start(rows))

Upsert(e, rows, items) ==
    CASE e = "brands" -> upsert_brands(rows, items)
      [] e = "series" -> upsert_series(rows, items)
      [] e = "specs" -> upsert_specs(rows, items)
      [] e = "param_titles" -> upsert_param_titles(rows, items)
      [] e = "param_values" -> upsert_param_values(rows, items)
      [] e = "photo_colors" -> upsert_photo_colors(rows, items)
      [] e = "photo_categories" -> upsert_photo_categories(rows, items)
      [] e = "photos" -> upsert_photos(rows, items)
      [] e = "panorama_colors" -> upsert_panorama_colors(rows, items)
      [] e = "panorama_photos" -> upsert_panorama_photos(rows, items)

NoResult == Start({})

(* An upsert call on the table of the behaviour with any batch, committed  *)
(* by session_scope. With observe the call is the one the claims look at.  *)
Apply(e) ==
    /\ entity = e
    /\ nth = 0
    /\ \E items \in Batches(e), observe \in BOOLEAN :
         LET res == Upsert(e, storage[e], items) IN
         /\ storage' = [storage EXCEPT ![e] = res.rows]
         /\ IF observe
            THEN /\ last_batch' = items
                 /\ last_before' = storage[e]
                 /\ last_result' = res
                 /\ nth' = 1
            ELSE UNCHANGED <<last_batch, last_before, last_result, nth>>
    /\ UNCHANGED entity

(* The observed batch is applied a second time. *)
Reapply ==
    /\ nth = 1
    /\ LET res == Upsert(entity, storage[entity], last_batch) IN
         /\ storage' = [storage EXCEPT ![entity] = res.rows]
         /\ last_before' = storage[entity]
         /\ last_result' = res
    /\ nth' = 2
    /\ UNCHANGED <<entity, last_batch>>

RepoIdle ==
    /\ entity = "brands"
    /\ storage = [e \in Entities |-> {}]
    /\ last_batch = <<>>
    /\ last_before = {}
    /\ last_result = NoResult
    /\ nth = 0

----------------------------------------------------------------------------
(* The ext-id resolver: find_ext_id_for_spec of app/panorama_parser.py.    *)

(* Numbers a viewer page or a response can carry, and the spec ids asked   *)
(* for: below, inside and above the range the aggressive search accepts.   *)
Numbers == {5, 999, 1500, 2000, 1000000}
SpecIds == {5, 1500}

(* int(match) of a page is accepted by the aggressive search. *)
InRange(candidate) == 1000 <= candidate /\ candidate <= 999999

(* A get_pano_baseinfo call raises (ok = FALSE) or returns a payload whose *)
(* ext object carries SpecId and Id, either of which may be missing.       *)
Responses ==
    [ok : {TRUE}, SpecId : SpecIds \cup {NoneInt}, Id : {NoneInt, 0, 5, 1500, 2000}]
    \cup {[ok |-> FALSE, SpecId |-> NoneInt, Id |-> NoneInt]}

NoProbe == [id |-> NoneInt, ok |-> FALSE, SpecId |-> NoneInt, Id |-> NoneInt]

Probe(id, resp) ==
    [id |-> id, ok |-> resp.ok, SpecId |-> resp.SpecId, Id |-> resp.Id]

(* A mutation of Confirms: any response confirms. *)
ConfirmsAnyResponse(resp, sid) == resp.ok

(* `ext.get("SpecId") == spec_id` on a response that arrived. *)
Confirms(resp, sid) == resp.ok /\ resp.SpecId = sid

(* A mutation of Truthy: no id counts as present. *)
NeverTruthy(n) == FALSE

(* Python truth of an Optional[int]. *)
Truthy(n) == n # NoneInt /\ n # 0

Return(id) == resolved' = id /\ res_pc' = "done"

(* A call of the client in the step `step`: get_pano_page (id NoneInt) or  *)
(* get_pano_baseinfo(id); echo: the response carried the spec id; raised:  *)
(* the step ended in its except branch.                                    *)
Called(step, id, echo, raised) ==
    client_calls' = Append(client_calls,
                           [step |-> step, id |-> id, echo |-> echo, raised |-> raised])

(* found_candidates of a page whose explicit patterns match the numbers    *)
(* explicit and whose aggressive patterns match the numbers aggressive.    *)
Candidates(explicit, aggressive, sid) ==
    IF explicit \ {sid} # {} THEN explicit \ {sid}
    ELSE {c \in aggressive : InRange(c) /\ c # sid}

(* Variant 0: the ext_id saved with a panorama colour of the spec, if      *)
(* storage has one, is probed; a confirmed id is returned unless the       *)
(* session's commit fails. Every failure leads on to the page.             *)
CheckSaved ==
    /\ res_pc = "saved"
    /\ \E saved \in {NoneInt, 0} \cup Numbers, resp \in Responses, commit_ok \in BOOLEAN :
         IF Truthy(saved)
         THEN /\ last_probe' = Probe(saved, resp)
              /\ Called("saved", saved, Confirms(resp, spec_id),
                        ~resp.ok \/ (Confirms(resp, spec_id) /\ ~commit_ok))
              /\ IF Confirms(resp, spec_id) /\ commit_ok
                 THEN Return(saved)
                 ELSE res_pc' = "page" /\ UNCHANGED resolved
         ELSE /\ res_pc' = "page"
              /\ UNCHANGED <<last_probe, resolved, client_calls>>
    /\ UNCHANGED <<spec_id, found_candidates, ext_id_from_response>>

(* A mutation of NextCandidate: the candidates are taken in descending     *)
(* order.                                                                  *)
GreatestCandidate(candidates) ==
    CHOOSE c \in candidates : \A d \in candidates : c >= d

(* The element `for ... in sorted(found_candidates)` takes next. *)
NextCandidate(candidates) ==
    CHOOSE c \in candidates : \A d \in candidates : c <= d

(* Where the loop over the candidates goes on: to the next candidate, or   *)
(* past the loop to the direct probe.                                      *)
AfterCandidate(rest) == IF rest = {} THEN "direct" ELSE "candidates"

(* A mutation of Caught: a probe that raises ends the loop. *)
CaughtOutsideLoop(rest) == "direct"

(* `except Exception ... continue` inside the loop: a probe that raises    *)
(* passes to the next candidate.                                           *)
Caught(rest) == AfterCandidate(rest)

(* Variant 1: the viewer page is fetched and searched for candidates. *)
FetchPage ==
    /\ res_pc = "page"
    /\ \E fetched \in BOOLEAN, explicit \in SUBSET Numbers, aggressive \in SUBSET Numbers :
         /\ Called("page", NoneInt, FALSE, ~fetched)
         /\ IF fetched
            THEN /\ found_candidates' = Candidates(explicit, aggressive, spec_id)
                 /\ res_pc' = AfterCandidate(found_candidates')
            ELSE /\ found_candidates' = {}
                 /\ res_pc' = "direct"
    /\ UNCHANGED <<spec_id, last_probe, ext_id_from_response, resolved>>

(* `for candidate_ext_id in sorted(found_candidates)`: the least candidate *)
(* left is probed; a confirmed one is returned, any other is passed over,  *)
(* and after the last one the direct probe follows.                        *)
ProbeCandidate ==
    /\ res_pc = "candidates"
    /\ found_candidates # {}
    /\ LET candidate_ext_id == NextCandidate(found_candidates)
       IN \E resp \in Responses :
            /\ last_probe' = Probe(candidate_ext_id, resp)
            /\ Called("candidate", candidate_ext_id, Confirms(resp, spec_id), ~resp.ok)
            /\ IF Confirms(resp, spec_id)
               THEN Return(candidate_ext_id) /\ UNCHANGED found_candidates
               ELSE /\ found_candidates' = found_candidates \ {candidate_ext_id}
                    /\ res_pc' = IF resp.ok THEN AfterCandidate(found_candidates')
                                 ELSE Caught(found_candidates')
                    /\ UNCHANGED resolved
    /\ UNCHANGED <<spec_id, ext_id_from_response>>

(* Variant 2: the spec id itself is probed as an ext id. *)
ProbeDirect ==
    /\ res_pc = "direct"
    /\ \E resp \in Responses :
         /\ last_probe' = Probe(spec_id, resp)
         /\ Called("direct", spec_id, Confirms(resp, spec_id), ~resp.ok)
         /\ IF ~resp.ok THEN Return(NoneInt) /\ UNCHANGED ext_id_from_response
            ELSE IF Confirms(resp, spec_id)
            THEN Return(spec_id) /\ UNCHANGED ext_id_from_response
            ELSE IF Truthy(resp.Id) /\ resp.Id # spec_id
            THEN /\ ext_id_from_response' = resp.Id
                 /\ res_pc' = "from_response"
                 /\ UNCHANGED resolved
            ELSE Return(NoneInt) /\ UNCHANGED ext_id_from_response
    /\ UNCHANGED <<spec_id, found_candidates>>

(* The ext.Id of the direct probe's response is probed once. *)
ProbeFromResponse ==
    /\ res_pc = "from_response"
    /\ \E resp \in Responses :
         /\ last_probe' = Probe(ext_id_from_response, resp)
         /\ Called("from_response", ext_id_from_response, Confirms(resp, spec_id), ~resp.ok)
         /\ IF Confirms(resp, spec_id)
            THEN Return(ext_id_from_response)
            ELSE Return(NoneInt)
    /\ UNCHANGED <<spec_id, found_candidates, ext_id_from_response>>

ResolverIdle ==
    /\ res_pc = "idle"
    /\ spec_id = 5
    /\ found_candidates = {}
    /\ last_probe = NoProbe
    /\ ext_id_from_response = NoneInt
    /\ resolved = NoneInt
    /\ client_calls = <<>>

----------------------------------------------------------------------------
(* The image downloader: download_image of app/photo_downloader.py.        *)
(* Operations on the local filesystem are taken to succeed; requests may   *)
(* fail at any point.                                                      *)

MIN_IMAGE_SIZE == 1024

dl_max_retries == 3

(* A file or a response body: its length in bytes and how it begins.       *)
(* RIFF_WEBP and RIFF_OTHER begin with RIFF and differ in bytes 8..11.     *)
Sizes == {3, 8, MIN_IMAGE_SIZE - 1, MIN_IMAGE_SIZE}
Heads == {"JPEG", "PNG", "GIF8", "RIFF_WEBP", "RIFF_OTHER", "HTML"}
Contents == [exists : {TRUE}, size : Sizes, head : Heads]
NoFile == [exists |-> FALSE, size |-> 0, head |-> "none"]

(* f.read(12) and content[:12] *)
First12(data) == [data EXCEPT !.size = IF @ < 12 THEN @ ELSE 12]

(* A mutation of is_valid_image_content: every content is taken for an     *)
(* image.                                                                  *)
AnyContentValid(data) == TRUE

(* _is_valid_image_content *)
is_valid_image_content(data) ==
    IF data.size < 4 THEN FALSE
    ELSE CASE data.head \in {"JPEG", "PNG", "GIF8"} -> TRUE
           [] data.head \in {"RIFF_WEBP", "RIFF_OTHER"} ->
                 IF data.size >= 12 THEN data.head = "RIFF_WEBP" ELSE TRUE
           [] OTHER -> FALSE

ContentTypes == {"", "image/jpeg", "text/html"}

(* content_type.startswith('image/') *)
IsImageType(content_type) == content_type = "image/jpeg"

Finish(result) == dl_result' = result /\ dl_pc' = "done"

(* file_path.unlink(), then on to the fetch loop. *)
UnlinkAndFetch ==
    /\ file' = NoFile
    /\ unlinked' = TRUE
    /\ dl_pc' = "fetch"
    /\ UNCHANGED <<dl_result, dl_reason>>

(* The check of an existing file before any request. *)
PreFetchCheck ==
    /\ dl_pc = "check"
    /\ IF ~file.exists
       THEN dl_pc' = "fetch" /\ UNCHANGED <<file, unlinked, dl_result, dl_reason>>
       ELSE IF file.size < MIN_IMAGE_SIZE THEN UnlinkAndFetch
       ELSE IF ~is_valid_image_content(First12(file)) THEN UnlinkAndFetch
       ELSE Finish("True") /\ dl_reason' = "exists" /\ UNCHANGED <<file, unlinked>>
    /\ UNCHANGED <<prior, prior_parent, parent_dir, dl_attempt, requests_made, dl_sleeps>>

(* A mutation of wait_time: the same wait after every attempt. *)
ConstantWait(att) == 500

(* wait_time = (attempt + 1) * 0.5 seconds, in ms. *)
wait_time(att) == (att + 1) * 500

(* A mutation of Reject: a validation failure is handled like a failed     *)
(* request.                                                                *)
RejectAndRetry(reason) ==
    /\ dl_attempt' = dl_attempt + 1
    /\ dl_reason' = reason
    /\ UNCHANGED <<dl_pc, dl_result, file, dl_sleeps>>

(* `return False` of a response that fails a validation. *)
Reject(reason) ==
    /\ Finish("False")
    /\ dl_reason' = reason
    /\ UNCHANGED <<file, dl_attempt, dl_sleeps>>

(* The except branch of an attempt: the loop goes on, or ends with False   *)
(* after the last attempt.                                                 *)
AttemptFailed ==
    /\ dl_attempt' = dl_attempt + 1
    /\ IF dl_attempt + 1 = dl_max_retries
       THEN Finish("False") /\ dl_reason' = "network" /\ UNCHANGED dl_sleeps
       ELSE /\ dl_sleeps' = Append(dl_sleeps, wait_time(dl_attempt))
            /\ UNCHANGED <<dl_pc, dl_result, dl_reason>>

(* requests.get or raise_for_status raises. *)
RequestRaises ==
    /\ dl_pc = "fetch"
    /\ requests_made' = requests_made + 1
    /\ AttemptFailed
    /\ UNCHANGED <<file, prior, prior_parent, parent_dir, unlinked>>

(* A response arrives: content type, directory, body, size and signature   *)
(* are handled in this order.                                              *)
ResponseArrives ==
    /\ dl_pc = "fetch"
    /\ requests_made' = requests_made + 1
    /\ \E content_type \in ContentTypes, body_read \in BOOLEAN, content \in Contents :
         IF content_type # "" /\ ~IsImageType(content_type)
         THEN Reject("content_type") /\ UNCHANGED parent_dir
         ELSE /\ parent_dir' = TRUE
              /\ IF ~body_read THEN AttemptFailed /\ UNCHANGED file
                 ELSE IF content.size < MIN_IMAGE_SIZE THEN Reject("size")
                 ELSE IF ~is_valid_image_content(First12(content))
                 THEN Reject("signature")
                 ELSE /\ file' = content
                      /\ Finish("True")
                      /\ dl_reason' = "saved"
                      /\ UNCHANGED <<dl_attempt, dl_sleeps>>
    /\ UNCHANGED <<prior, prior_parent, unlinked>>

DownloadIdle ==
    /\ dl_pc = "idle"
    /\ file = NoFile
    /\ prior = NoFile
    /\ parent_dir = FALSE
    /\ prior_parent = FALSE
    /\ dl_attempt = 0
    /\ requests_made = 0
    /\ unlinked = FALSE
    /\ dl_result = "none"
    /\ dl_sleeps = <<>>
    /\ dl_reason = "none"

----------------------------------------------------------------------------
(* The run of main() after the store and tree bootstrap: app/main.py.      *)
(* A stage's pool is taken as a whole here (Spec has its steps): it runs   *)
(* its units, none or all of which fail, and always drains.                *)

Settings ==
    [photo_360_only : BOOLEAN, parse_panoramas : BOOLEAN, parse_photos : BOOLEAN,
     download_photos : BOOLEAN, download_panoramas : BOOLEAN]

(* The positions of main() in program order; "panoramas_first" is the      *)
(* panorama parsing placed before the photos in 360-only mode.             *)
RunOrder ==
    <<"characteristics", "panoramas_first", "photos", "photo_download",
      "panoramas", "panorama_download", "summary">>

NoPools == [s \in Stages \cup {"panoramas_first"} |-> [units |-> 0, errors |-> 0]]

(* A mutation of StageEnabled: the later panorama stage does not look at   *)
(* panoramas_already_parsed.                                               *)
StageEnabledAgain(s) ==
    CASE s = "panoramas_first" -> settings.photo_360_only /\ settings.parse_panoramas
      [] s = "photos" -> settings.parse_photos
      [] s = "photo_download" -> settings.download_photos
      [] s = "panoramas" -> settings.parse_panoramas
      [] s = "panorama_download" -> settings.download_panoramas
      [] OTHER -> TRUE

(* The `if settings...` test that guards the body of a stage. *)
StageEnabled(s) ==
    CASE s = "panoramas_first" -> settings.photo_360_only /\ settings.parse_panoramas
      [] s = "photos" -> settings.parse_photos
      [] s = "photo_download" -> settings.download_photos
      [] s = "panoramas" ->
            settings.parse_panoramas /\ "panoramas_first" \notin entered
      [] s = "panorama_download" -> settings.download_panoramas
      [] OTHER -> TRUE

(* The pool of a stage with n eligible units: none is started for n = 0.   *)
RunPool(s, n, failed) ==
    pools' = [pools EXCEPT ![s] = [units |-> n, errors |-> failed]]

(* _filter_series_for_reparse and the characteristics pool: with no series *)
(* to parse main() returns at once.                                        *)
Characteristics ==
    /\ run_pc = "characteristics"
    /\ \E n \in 0..MaxUnits, failed \in 0..MaxUnits :
         /\ failed \in {0, n}
         /\ IF n = 0
            THEN /\ run_pc' = "returned"
                 /\ UNCHANGED <<entered, pools>>
            ELSE /\ entered' = entered \cup {"characteristics"}
                 /\ RunPool("characteristics", n, failed)
                 /\ run_pc' = "panoramas_first"
    /\ UNCHANGED <<settings, summary_emitted>>

(* A later stage: skipped when switched off, entered otherwise; its pool   *)
(* runs when the query for its units returns any.                          *)
LaterStage(i) ==
    /\ run_pc = RunOrder[i]
    /\ IF StageEnabled(RunOrder[i])
       THEN /\ entered' = entered \cup {RunOrder[i]}
            /\ \E n \in 0..MaxUnits, failed \in 0..MaxUnits :
                 failed \in {0, n} /\ RunPool(RunOrder[i], n, failed)
       ELSE UNCHANGED <<entered, pools>>
    /\ run_pc' = RunOrder[i + 1]
    /\ UNCHANGED <<settings, summary_emitted>>

(* The final report, after which main() returns. *)
Summary ==
    /\ run_pc = "summary"
    /\ summary_emitted' = TRUE
    /\ run_pc' = "returned"
    /\ UNCHANGED <<settings, entered, pools>>

RunIdle ==
    /\ run_pc = "idle"
    /\ settings = [photo_360_only |-> FALSE, parse_panoramas |-> FALSE,
                   parse_photos |-> FALSE, download_photos |-> FALSE,
                   download_panoramas |-> FALSE]
    /\ entered = {}
    /\ pools = NoPools
    /\ summary_emitted = FALSE

----------------------------------------------------------------------------
(* One download step of a stored row: the loop body of                     *)
(* download_all_photos_for_series (app/photo_downloader.py, called with    *)
(* the default download_types ['original']) and                            *)
(* _download_single_panorama_photo (app/panorama_downloader.py). The call  *)
(* of download_image is the step machine above; `file` is what the         *)
(* destination of the step holds. Store operations are taken to succeed.   *)

base_path == "IMG"

(* A URL: its scheme, what follows "scheme://", and the extension of its   *)
(* path ("" when the path has no dot). NoUrl is an empty or missing URL.   *)
Urls == [scheme : {"http", "https"}, rest : {"host/a"}, ext : {"", "png"}]
NoUrl == [scheme |-> "", rest |-> "", ext |-> ""]

(* A path below a base directory; relative paths have the base "". *)
PathOf(base, rel) == [base |-> base, rel |-> rel]
NoPath == PathOf("None", "")

(* A mutation of ensure_https: the URL is requested as stored. *)
KeepScheme(url) == url

(* _ensure_https *)
ensure_https(url) ==
    IF url.scheme = "http" THEN [url EXCEPT !.scheme = "https"] ELSE url

(* get_file_extension, for the lower-case extensions of at most five       *)
(* characters that Urls holds.                                             *)
get_file_extension(url) == IF url.ext # "" THEN "." \o url.ext ELSE ".jpg"

(* Path(base_path) / str(series_id) / str(spec_id) / str(category_id) /    *)
(* str(color_id)                                                           *)
get_photo_directory(base, series_id, sid, category_id, color_id) ==
    PathOf(base, ToString(series_id) \o "/" \o ToString(sid) \o "/"
                 \o ToString(category_id) \o "/" \o ToString(color_id))

get_photo_filename(photo_id, url, image_type) ==
    photo_id \o "_" \o image_type \o get_file_extension(url)

get_panorama_directory(base, series_id, sid, color_id) ==
    PathOf(base, ToString(series_id) \o "/" \o ToString(sid) \o "/360/"
                 \o ToString(color_id))

(* f"{seq:03d}{ext}" *)
get_panorama_filename(photo_id, url, seq) ==
    (IF seq < 10 THEN "00" ELSE IF seq < 100 THEN "0" ELSE "")
        \o ToString(seq) \o get_file_extension(url)

(* photo_dir / filename *)
Child(dir, filename) == PathOf(dir.base, dir.rel \o "/" \o filename)

(* file_path.relative_to(Path(base_path)) *)
relative_to(path, base) == PathOf("", path.rel)

(* The rows a step may be handed. A local_path that is set names the       *)
(* step's destination or another file.                                     *)
PhotoRows ==
    [kind : {"photo"}, id : {"p1"}, series_id : {10}, spec_id : {100},
     category_id : {1, 2}, color_id : {0}, seq : {0},
     url : Urls \cup {NoUrl}]
PanoramaRows ==
    [kind : {"panorama"}, id : {"f1"}, series_id : {10}, spec_id : {100},
     category_id : {0}, color_id : {3}, seq : {0, 12},
     url : Urls \cup {NoUrl}]

(* A row as the step's query loaded it. *)
Loaded(row, path) ==
    [kind |-> row.kind, id |-> row.id, series_id |-> row.series_id,
     spec_id |-> row.spec_id, category_id |-> row.category_id,
     color_id |-> row.color_id, seq |-> row.seq, url |-> row.url,
     local_path |-> path]

Destination(row) ==
    IF row.kind = "photo"
    THEN Child(get_photo_directory(base_path, row.series_id, row.spec_id,
                                   row.category_id, row.color_id),
               get_photo_filename(row.id, row.url, "original"))
    ELSE Child(get_panorama_directory(base_path, row.series_id, row.spec_id,
                                      row.color_id),
               get_panorama_filename(row.id, row.url, row.seq))

OtherPath == PathOf("", "old/000.png")

(* The call download_image(url, file_path) of download_photo and           *)
(* download_panorama_photo.                                                *)
CallDownloadImage(url, path) ==
    /\ dl_pc' = "check"
    /\ safe_url' = ensure_https(url)
    /\ file_path' = path
    /\ step_pc' = "download"
    /\ UNCHANGED <<photo, local_path, step_stats>>

(* The step ends with one statistics counter incremented. *)
Count(counter) == step_stats' = counter /\ step_pc' = "done"

(* A mutation of DownloadedPath: a path is returned whatever               *)
(* download_image returned.                                                *)
AlwaysPath(path) == relative_to(path, base_path)

(* What download_photo and download_panorama_photo return after            *)
(* download_image returned.                                                *)
DownloadedPath(path) ==
    IF dl_result = "True" THEN relative_to(path, base_path) ELSE NoPath

(* download_photo, up to its call of download_image; a row without         *)
(* originalpic is counted as skipped.                                      *)
download_photo ==
    /\ step_pc = "start"
    /\ photo.kind = "photo"
    /\ IF photo.url = NoUrl
       THEN /\ Count("skipped")
            /\ UNCHANGED <<dlVars, photo, local_path, safe_url, file_path>>
       ELSE /\ CallDownloadImage(photo.url, Destination(photo))
            /\ UNCHANGED <<file, prior, prior_parent, parent_dir, dl_attempt, requests_made,
                           unlinked, dl_result, dl_sleeps, dl_reason>>

(* download_all_photos_for_series after download_photo returned. *)
download_all_photos_for_series ==
    /\ step_pc = "download"
    /\ photo.kind = "photo"
    /\ dl_pc = "done"
    /\ IF DownloadedPath(file_path) # NoPath
       THEN local_path' = DownloadedPath(file_path) /\ Count("downloaded")
       ELSE Count("skipped") /\ UNCHANGED local_path
    /\ UNCHANGED <<dlVars, photo, safe_url, file_path>>

(* _download_single_panorama_photo up to the call of download_image: a     *)
(* frame whose local_path names an existing file is counted as skipped.    *)
download_panorama_photo ==
    /\ step_pc = "start"
    /\ photo.kind = "panorama"
    /\ \E other_exists \in BOOLEAN :
         LET exists == IF photo.local_path = relative_to(Destination(photo), base_path)
                       THEN file.exists ELSE other_exists
         IN IF photo.local_path # NoPath /\ exists
            THEN /\ Count("skipped")
                 /\ UNCHANGED <<dlVars, photo, local_path, safe_url, file_path>>
            ELSE IF photo.url = NoUrl
            THEN /\ Count("errors")
                 /\ UNCHANGED <<dlVars, photo, local_path, safe_url, file_path>>
            ELSE /\ CallDownloadImage(photo.url, Destination(photo))
                 /\ UNCHANGED <<file, prior, prior_parent, parent_dir, dl_attempt,
                                requests_made, unlinked, dl_result, dl_sleeps,
                                dl_reason>>

(* _download_single_panorama_photo after download_panorama_photo returned; *)
(* the row is looked up again and may be gone.                             *)
download_single_panorama_photo ==
    /\ step_pc = "download"
    /\ photo.kind = "panorama"
    /\ dl_pc = "done"
    /\ IF DownloadedPath(file_path) # NoPath
       THEN /\ \E photo_obj \in BOOLEAN :
                 local_path' = IF photo_obj THEN DownloadedPath(file_path)
                               ELSE local_path
            /\ Count("downloaded")
       ELSE Count("errors") /\ UNCHANGED local_path
    /\ UNCHANGED <<dlVars, photo, safe_url, file_path>>

StepIdle ==
    /\ step_pc = "idle"
    /\ photo = [kind |-> "none"]
    /\ local_path = NoPath
    /\ safe_url = NoUrl
    /\ file_path = NoPath
    /\ step_stats = "none"

----------------------------------------------------------------------------
(* Two worker threads upserting one record each, every thread in its own   *)
(* session_scope (app/db.py) on a PostgreSQL connection at the default     *)
(* READ COMMITTED level: a query sees the committed rows, a write of a key *)
(* another open transaction has written waits for that transaction to end, *)
(* and an INSERT of a committed key violates the primary key.              *)

Threads == {1, 2}

KeyStable == {"specs", "photos", "panorama_colors", "panorama_photos",
              "param_titles"}

(* upsert_photos and upsert_param_titles write with ON CONFLICT DO UPDATE; *)
(* the other upserts query first.                                          *)
UsesOnConflict(e) == e \in {"photos", "param_titles"}

(* Thread o has written key and not committed yet. *)
LockedBy(o, key) ==
    /\ tx[o].pc = "flushed"
    /\ \E r \in tx[o].pending : KeyOf(upsert_entity, r) = key

Blocked(t) ==
    \E o \in Threads \ {t} : LockedBy(o, KeyOf(upsert_entity, tx[t].item))

(* `existing = session.query(Model).filter(Model.id == item.id).first()` *)
Query(t) ==
    /\ tx[t].pc = "begin"
    /\ ~UsesOnConflict(upsert_entity)
    /\ tx' = [tx EXCEPT ![t].pc = "queried",
                        ![t].existing = Existing(upsert_entity, committed,
                                                 tx[t].item)]
    /\ UNCHANGED <<upsert_entity, committed>>

(* session.flush() after the query: the UPDATE of the row that was found,  *)
(* or the INSERT of a new row, which fails when the key is committed by    *)
(* now; session_scope then rolls back and re-raises.                       *)
Flush(t) ==
    /\ tx[t].pc = "queried"
    /\ ~Blocked(t)
    /\ LET now == Existing(upsert_entity, committed, tx[t].item) IN
       IF tx[t].existing # {}
       THEN tx' = [tx EXCEPT ![t].pc = "flushed",
                             ![t].pending = {Update(upsert_entity, r, tx[t].item) :
                                               r \in now}]
       ELSE IF now # {}
       THEN tx' = [tx EXCEPT ![t].pc = "failed"]
       ELSE tx' = [tx EXCEPT ![t].pc = "flushed",
                             ![t].pending = {Create(upsert_entity, tx[t].item)}]
    /\ UNCHANGED <<upsert_entity, committed>>

(* session.execute(stmt) of the ON CONFLICT DO UPDATE statement. *)
Execute(t) ==
    /\ tx[t].pc = "begin"
    /\ UsesOnConflict(upsert_entity)
    /\ ~Blocked(t)
    /\ tx' = [tx EXCEPT ![t].pc = "flushed",
                        ![t].pending =
                            Existing(upsert_entity,
                                     OnConflictDoUpdate(upsert_entity, committed,
                                                        <<tx[t].item>>),
                                     tx[t].item)]
    /\ UNCHANGED upsert_entity
    /\ UNCHANGED committed

(* session.commit() at the end of session_scope. *)
Commit(t) ==
    /\ tx[t].pc = "flushed"
    /\ committed' = {r \in committed :
                        \A w \in tx[t].pending :
                            KeyOf(upsert_entity, w) # KeyOf(upsert_entity, r)}
                    \cup tx[t].pending
    /\ tx' = [tx EXCEPT ![t].pc = "committed"]
    /\ UNCHANGED upsert_entity

RaceIdle ==
    /\ upsert_entity = "none"
    /\ committed = {}
    /\ tx = [t \in Threads |-> [pc |-> "idle"]]

----------------------------------------------------------------------------
(* The shared statistics record of the characteristics stage and its       *)
(* mutex: the two `with progress_counter["lock"]` blocks of                *)
(* _parse_and_store_series (app/main.py). `counter += n` is a load and a   *)
(* store; the threads of the pool interleave between any two of them.      *)

Counters == {"parsed", "errors", "specs_inserted"}

(* The updates a unit makes inside its `with` block, in order: those of    *)
(* the success path (the upsert inserted n specs) or the one of the except *)
(* branch.                                                                 *)
Updates(ok, n) ==
    IF ok THEN <<[counter |-> "parsed", by |-> 1],
                 [counter |-> "specs_inserted", by |-> n]>>
    ELSE <<[counter |-> "errors", by |-> 1]>>

(* A mutation of LockFree: the mutex never makes a thread wait. *)
LockIgnored == TRUE

(* The mutex can be acquired. *)
LockFree == lock_owner = 0

(* `with progress_counter["lock"]:` is entered by a unit that succeeded or *)
(* failed terminally.                                                      *)
Acquire(u) ==
    /\ thread[u].pc = "running"
    /\ LockFree
    /\ \E ok \in BOOLEAN, n \in {0, 1, 2} :
         thread' = [thread EXCEPT ![u].pc = "load",
                                  ![u].todo = Updates(ok, n),
                                  ![u].ok = ok]
    /\ lock_owner' = u
    /\ UNCHANGED <<stats, contributed>>

(* The read of `progress_counter[c] += n`. *)
Load(u) ==
    /\ thread[u].pc = "load"
    /\ thread' = [thread EXCEPT ![u].pc = "store",
                                ![u].loaded = stats[Head(thread[u].todo).counter]]
    /\ UNCHANGED <<lock_owner, stats, contributed>>

(* The write of `progress_counter[c] += n`; after the last one the block   *)
(* is left and the mutex released.                                         *)
Store(u) ==
    /\ thread[u].pc = "store"
    /\ LET upd == Head(thread[u].todo) IN
         /\ stats' = [stats EXCEPT ![upd.counter] = thread[u].loaded + upd.by]
         /\ contributed' = [contributed EXCEPT ![upd.counter] = @ + upd.by]
    /\ IF Tail(thread[u].todo) = <<>>
       THEN /\ thread' = [thread EXCEPT ![u].pc = "done", ![u].todo = <<>>]
            /\ lock_owner' = IF lock_owner = u THEN 0 ELSE lock_owner
       ELSE /\ thread' = [thread EXCEPT ![u].pc = "load", ![u].todo = Tail(@)]
            /\ UNCHANGED lock_owner

LockIdle ==
    /\ lock_owner = 0
    /\ stats = [c \in Counters |-> 0]
    /\ thread = [u \in UnitIds |-> [pc |-> "idle"]]
    /\ contributed = [c \in Counters |-> 0]

----------------------------------------------------------------------------
(* main() from the tree bootstrap to the submission of the photo-download  *)
(* pool (app/main.py), on the tables of `storage`. A pool is left when all *)
(* its units have run; a unit writes in one transaction or not at all.     *)

(* The records parse_tree_menu and parse_param_conf build, and the photo   *)
(* records parse_all_photos writes, as far as their keys matter here.      *)
SeriesItem(s) == [id |-> s, brand_id |-> 1, name |-> "a", is_new_energy |-> TRUE]
SpecItem(i, series_id) == [id |-> i, series_id |-> series_id, name |-> "a", min_price |-> "a"]
PhotoItem(s) ==
    [id |-> s, series_id |-> s, specification_id |-> s, category_id |-> 1,
     color_id |-> 0, originalpic |-> "a", specname |-> "a"]

(* One record per id of S, in ascending order. *)
Batch(S, item(_)) == [k \in 1..Cardinality(S) |-> item(Ascending(S)[k])]

SeriesOf(rows) == {r.series_id : r \in rows}

(* A mutation of StoreSeries: the series of the tree are not written. *)
StoreNothing(rows, ids) == rows

(* upsert_series(session, series_limited) *)
StoreSeries(rows, ids) == upsert_series(rows, Batch(ids, SeriesItem)).rows

(* The session_scope block that upserts brands and series; an error in it  *)
(* leaves main().                                                          *)
StoreTree ==
    /\ tree_pc = "store_tree"
    /\ \/ /\ storage' = [storage EXCEPT
                           !["brands"] = upsert_brands(@, <<[id |-> 1, name |-> "a",
                                                            logo_url |-> "a"]>>).rows,
                           !["series"] = StoreSeries(@, original_series_ids)]
          /\ tree_pc' = "filter"
       \/ /\ tree_pc' = "raised"
          /\ UNCHANGED storage
    /\ UNCHANGED <<tree_settings, original_series_ids, series_ids, todo,
                   series_ids_for_photos, series_ids_for_download>>

(* _filter_series_for_reparse *)
filter_series_for_reparse(ids, force) ==
    IF force THEN ids ELSE ids \ SeriesOf(storage["specs"])

(* The filter, the early return and the submission of the characteristics  *)
(* pool.                                                                   *)
FilterSeries ==
    /\ tree_pc = "filter"
    /\ series_ids' = filter_series_for_reparse(original_series_ids,
                                               tree_settings.force_reparse)
    /\ IF series_ids' = {}
       THEN tree_pc' = "returned" /\ UNCHANGED todo
       ELSE tree_pc' = "characteristics" /\ todo' = series_ids'
    /\ UNCHANGED <<storage, tree_settings, original_series_ids,
                   series_ids_for_photos, series_ids_for_download>>

(* A unit of the characteristics pool: parse_param_conf stamps every spec  *)
(* of the payload with the unit's series id, and upsert_specs writes them. *)
CharacteristicsUnit(s) ==
    /\ tree_pc = "characteristics"
    /\ s \in todo
    /\ \E spec_ids \in SUBSET Ids, ok \in BOOLEAN :
         storage' = IF ok
                    THEN [storage EXCEPT !["specs"] =
                            upsert_specs(@, Batch(spec_ids,
                                                  LAMBDA i : SpecItem(i, s))).rows]
                    ELSE storage
    /\ todo' = todo \ {s}
    /\ UNCHANGED <<tree_pc, tree_settings, original_series_ids, series_ids,
                   series_ids_for_photos, series_ids_for_download>>

(* `if settings.parse_photos`: the units are the series of the tree that   *)
(* have a spec.                                                            *)
EnterPhotos ==
    /\ tree_pc = "characteristics"
    /\ todo = {}
    /\ IF tree_settings.parse_photos
       THEN /\ series_ids_for_photos' =
                  original_series_ids \cap SeriesOf(storage["specs"])
            /\ todo' = series_ids_for_photos'
       ELSE UNCHANGED <<series_ids_for_photos, todo>>
    /\ tree_pc' = "photos"
    /\ UNCHANGED <<storage, tree_settings, original_series_ids, series_ids,
                   series_ids_for_download>>

(* A unit of the photo-metadata pool: it writes Photo rows of its series   *)
(* or none.                                                                *)
PhotosUnit(s) ==
    /\ tree_pc = "photos"
    /\ s \in todo
    /\ \E found \in BOOLEAN :
         storage' = IF found
                    THEN [storage EXCEPT !["photos"] =
                            upsert_photos(@, <<PhotoItem(s)>>).rows]
                    ELSE storage
    /\ todo' = todo \ {s}
    /\ UNCHANGED <<tree_pc, tree_settings, original_series_ids, series_ids,
                   series_ids_for_photos, series_ids_for_download>>

(* A mutation of DownloadUnits: every series with a Photo row is a unit. *)
AllSeriesWithPhotos(rows, ids) == SeriesOf(rows)

(* `[s[0] for s in series_with_photos if s[0] in series_ids]` *)
DownloadUnits(rows, ids) == SeriesOf(rows) \cap ids

(* `if settings.download_photos`: the units of the photo-download pool. *)
EnterPhotoDownload ==
    /\ tree_pc = "photos"
    /\ todo = {}
    /\ IF tree_settings.download_photos
       THEN series_ids_for_download' = DownloadUnits(storage["photos"], series_ids)
       ELSE UNCHANGED series_ids_for_download
    /\ tree_pc' = "photo_download"
    /\ UNCHANGED <<storage, tree_settings, original_series_ids, series_ids, todo,
                   series_ids_for_photos>>

TreeIdle ==
    /\ tree_pc = "idle"
    /\ tree_settings = [force_reparse |-> FALSE, parse_photos |-> FALSE,
                        download_photos |-> FALSE]
    /\ original_series_ids = {}
    /\ series_ids = {}
    /\ todo = {}
    /\ series_ids_for_photos = {}
    /\ series_ids_for_download = {}

----------------------------------------------------------------------------
(* The pools of main() one after another (app/main.py): each stage is a    *)
(* `with ThreadPoolExecutor(...)` block around the as_completed loop, and  *)
(* the next block is reached when the previous one has been left.          *)

(* The wrapper a position of main() runs in its pool. *)
PoolOf(s) == IF s = "panoramas_first" THEN "panoramas" ELSE s

Position(s) == CHOOSE i \in 1..Len(RunOrder) : RunOrder[i] = s

(* A mutation of PoolLeft: the block is left as soon as the units are      *)
(* submitted, as after shutdown(wait=False).                               *)
PoolLeftAtOnce == mainpc \in {"collect", "done"}

(* The end of the `with` block: as_completed has yielded every future. *)
PoolLeft == mainpc = "done"

(* main() goes on to a later stage that is switched on and has units: a    *)
(* new executor, a new progress_counter and the units of that stage.       *)
NextStage ==
    /\ PoolLeft
    /\ \E s \in Stages \cup {"panoramas_first"} :
         /\ Position(position) < Position(s)
         /\ s = "panoramas" => ~panoramas_already_parsed
         /\ position' = s
         /\ panoramas_already_parsed' =
               (panoramas_already_parsed \/ s = "panoramas_first")
         /\ stage' = PoolOf(s)
    /\ unit_ids' \in {1..n : n \in UnitIds}
    /\ queue' = <<>>
    /\ futures' = [u \in UnitIds |-> "none"]
    /\ attempt' = [u \in UnitIds |-> 0]
    /\ calls' = [u \in UnitIds |-> <<>>]
    /\ sleeps' = [u \in UnitIds |-> <<>>]
    /\ starts' = [u \in UnitIds |-> 0]
    /\ progress_counter' = [parsed |-> 0, errors |-> 0, skipped_no_panorama |-> 0]
    /\ collected' = {}
    /\ mainpc' = "submit"
    /\ UNCHANGED workers

PipeIdle ==
    /\ position = "idle"
    /\ panoramas_already_parsed = FALSE

----------------------------------------------------------------------------
(* One unit of the photo-metadata stage: _parse_photos_for_series          *)
(* (app/main.py) around parse_all_photos (app/photo_parser.py). A record   *)
(* batch is modelled by its length; a write of a batch succeeds or raises  *)
(* a deadlock error or another error.                                      *)

batch_size == 200

(* len(photos) of a parsed page; 0 for `pagecount == 0` or no photos. *)
PageSizes == {0, 120, 200}

WriteOutcomes == {"ok", "deadlock", "error"}

(* The call of parse_all_photos starts: its locals are initialised. *)
StartEnumeration ==
    /\ processed_combinations' = 0
    /\ all_photos_batch' = 0
    /\ total_errors' = 0
    /\ pa_pc' = "loop"

(* One combination whose get_pic_list or parse_pic_list raises: the except *)
(* branch of the loop body counts it.                                      *)
PageFails ==
    /\ pa_pc = "loop"
    /\ processed_combinations < combinations
    /\ processed_combinations' = processed_combinations + 1
    /\ total_errors' = total_errors + 1
    /\ UNCHANGED <<pa_pc, combinations, all_photos_batch, pa_attempt, pa_sleeps,
                   photos_errors, contended>>

(* One combination whose page is parsed: its records are appended, and a   *)
(* batch of batch_size records or more is written in a session of its own  *)
(* and emptied after the write; a write that raises is caught by the       *)
(* except branch of the loop body.                                         *)
PageParsed ==
    /\ pa_pc = "loop"
    /\ processed_combinations < combinations
    /\ processed_combinations' = processed_combinations + 1
    /\ \E photos \in PageSizes, write \in WriteOutcomes :
         LET extended == all_photos_batch + photos IN
         IF photos > 0 /\ extended >= batch_size
         THEN IF write = "ok"
              THEN /\ all_photos_batch' = 0
                   /\ UNCHANGED <<total_errors, contended>>
              ELSE /\ all_photos_batch' = extended
                   /\ total_errors' = total_errors + 1
                   /\ contended' = contended + (IF is_deadlock(write) THEN 1 ELSE 0)
         ELSE /\ all_photos_batch' = extended
              /\ UNCHANGED <<total_errors, contended>>
    /\ UNCHANGED <<pa_pc, combinations, pa_attempt, pa_sleeps, photos_errors>>

(* The loop is over: what is left in the batch is written outside the try  *)
(* of the loop body, so an error of this write leaves parse_all_photos and *)
(* reaches the except branch of the wrapper, which sleeps and runs the     *)
(* unit again or counts the error.                                         *)
FinalChunk ==
    /\ pa_pc = "loop"
    /\ processed_combinations = combinations
    /\ \E write \in WriteOutcomes :
         IF all_photos_batch = 0 \/ write = "ok"
         THEN /\ pa_pc' = "returned"
              /\ all_photos_batch' = 0
              /\ UNCHANGED <<processed_combinations, total_errors, pa_attempt,
                             pa_sleeps, photos_errors>>
         ELSE IF ShouldRetry(pa_attempt, write)
         THEN /\ pa_sleeps' = Append(pa_sleeps, Backoff(pa_attempt))
              /\ pa_attempt' = pa_attempt + 1
              /\ StartEnumeration
              /\ UNCHANGED photos_errors
         ELSE /\ photos_errors' = photos_errors + 1
              /\ IF pa_attempt = max_retries - 1
                 THEN /\ pa_pc' = "returned"
                      /\ UNCHANGED <<processed_combinations, all_photos_batch,
                                     total_errors, pa_attempt>>
                 ELSE /\ pa_attempt' = pa_attempt + 1
                      /\ StartEnumeration
              /\ UNCHANGED pa_sleeps
    /\ UNCHANGED <<combinations, contended>>

PhotosIdle ==
    /\ pa_pc = "idle"
    /\ combinations = 0
    /\ processed_combinations = 0
    /\ all_photos_batch = 0
    /\ total_errors = 0
    /\ pa_attempt = 0
    /\ pa_sleeps = <<>>
    /\ photos_errors = 0
    /\ contended = 0

----------------------------------------------------------------------------
(* The except branch of the per-unit wrappers on the text of an error      *)
(* (app/main.py): `error_msg = str(exc).split("\n")[0]` is a sequence of   *)
(* words, and a substring test is a test on the words.                     *)

Words == {"DeadlockDetected", "Deadlock", "deadlock", "Lock", "lock", "timeout"}

(* word.lower() *)
Lower(word) ==
    CASE word = "DeadlockDetected" -> "deadlockdetected"
      [] word = "Deadlock" -> "deadlock"
      [] word = "Lock" -> "lock"
      [] OTHER -> word

Messages == UNION {[1..n -> Words] : n \in 1..MaxWords}

(* `"DeadlockDetected" in error_msg or "deadlock" in error_msg.lower()` *)
IsDeadlockMessage(msg) ==
    \/ \E i \in 1..Len(msg) : msg[i] = "DeadlockDetected"
    \/ \E i \in 1..Len(msg) : Lower(msg[i]) \in {"deadlock", "deadlockdetected"}

(* The test of the except branch and what follows it: the backoff sleep    *)
(* and `continue`, or the error counted.                                   *)
ExceptBranch ==
    /\ except_branch.decision = "none"
    /\ except_branch' =
          [except_branch EXCEPT
              !.decision =
                  IF ShouldRetry(except_branch.attempt,
                                 IF IsDeadlockMessage(except_branch.error_msg)
                                 THEN "deadlock" ELSE "other")
                  THEN "sleep_continue" ELSE "count_error"]

ClassifyIdle == except_branch = [decision |-> "idle"]

----------------------------------------------------------------------------
(* The size of the nested frame pool (app/main.py): main() computes        *)
(* photo_workers_per_spec from settings.parse_workers and hands it, through *)
(* _download_panoramas_for_spec, to download_all_panorama_photos_for_spec  *)
(* as max_workers.                                                         *)

Min(a, b) == IF a <= b THEN a ELSE b

(* `min(5, settings.parse_workers // 2) if settings.parse_workers > 1      *)
(* else 5`                                                                 *)
PhotoWorkersPerSpec(w) == IF w > 1 THEN Min(5, w \div 2) ELSE 5

SizeNestedPool ==
    /\ nested_pool.photo_workers_per_spec = 0
    /\ nested_pool' =
          [nested_pool EXCEPT
              !.photo_workers_per_spec = PhotoWorkersPerSpec(nested_pool.parse_workers)]

NestedIdle == nested_pool = [parse_workers |-> 0, photo_workers_per_spec |-> -1]

----------------------------------------------------------------------------
(* download_all_panorama_photos_for_spec (app/panorama_downloader.py): the *)
(* listed frames are submitted to a nested pool, each runs                 *)
(* _download_single_panorama_photo, which counts its outcome in the shared *)
(* stats under the lock of the call. progress_callback is None, as in      *)
(* every call main() makes.                                                *)

FrameIds == 1..MaxFrames

(* How one frame ends: the file of its local_path exists; the download     *)
(* returned a path and local_path was stored; the download returned None;  *)
(* the download raised; the store of local_path raised.                    *)
FrameOutcomes == {"exists", "fetched", "fetch_failed", "raised", "store_failed"}

(* A mutation of CountersOf: the download is counted before local_path is  *)
(* stored, so a failing store is counted twice.                            *)
CountedBeforeStore(outcome) ==
    CASE outcome = "exists" -> <<"skipped">>
      [] outcome = "fetched" -> <<"downloaded">>
      [] outcome = "store_failed" -> <<"downloaded", "errors">>
      [] OTHER -> <<"errors">>

(* The counters _download_single_panorama_photo increments for an outcome, *)
(* in order.                                                               *)
CountersOf(outcome) ==
    CASE outcome = "exists" -> <<"skipped">>
      [] outcome = "fetched" -> <<"downloaded">>
      [] OTHER -> <<"errors">>

NoFrame == [pc |-> "none", todo |-> <<>>, loaded |-> 0]

(* The query for the frames and the dictionary comprehension of            *)
(* executor.submit; with no frame the call returns its zero statistics.    *)
SubmitFrames ==
    /\ frames_call.pc = "start"
    /\ IF frames_call.total_photos = 0
       THEN frames_call' = [frames_call EXCEPT !.pc = "returned"]
       ELSE frames_call' =
               [frames_call EXCEPT
                   !.pc = "pool",
                   !.frame = [f \in FrameIds |->
                                IF f <= frames_call.total_photos
                                THEN [NoFrame EXCEPT !.pc = "queued"]
                                ELSE NoFrame],
                   !.submits = [f \in FrameIds |->
                                  IF f <= frames_call.total_photos THEN 1 ELSE 0]]

(* A free worker of the nested pool runs the body of                       *)
(* _download_single_panorama_photo up to the point where it counts.        *)
FrameRuns(f) ==
    /\ frames_call.pc = "pool"
    /\ frames_call.frame[f].pc = "queued"
    /\ Cardinality({g \in FrameIds : frames_call.frame[g].pc \in {"counting", "store"}})
          < frames_call.max_workers
    /\ \E outcome \in FrameOutcomes :
         frames_call' = [frames_call EXCEPT !.frame[f].pc = "counting",
                                            !.frame[f].todo = CountersOf(outcome)]

(* `with lock:` is entered and the counter read. *)
FrameLoad(f) ==
    /\ frames_call.pc = "pool"
    /\ frames_call.frame[f].pc = "counting"
    /\ frames_call.lock = 0
    /\ frames_call' =
          [frames_call EXCEPT
              !.lock = f,
              !.frame[f].pc = "store",
              !.frame[f].loaded = frames_call.stats[Head(frames_call.frame[f].todo)]]

(* The counter is written and the lock released. *)
FrameStore(f) ==
    /\ frames_call.pc = "pool"
    /\ frames_call.frame[f].pc = "store"
    /\ frames_call' =
          [frames_call EXCEPT
              !.stats[Head(frames_call.frame[f].todo)] = frames_call.frame[f].loaded + 1,
              !.lock = 0,
              !.frame[f].todo = Tail(@),
              !.frame[f].pc = IF Tail(frames_call.frame[f].todo) = <<>> THEN "done"
                              ELSE "counting"]

(* as_completed has yielded every future and the executor is shut down:    *)
(* the call returns the statistics.                                        *)
ReturnStats ==
    /\ frames_call.pc = "pool"
    /\ \A f \in FrameIds : frames_call.frame[f].pc \in {"none", "done"}
    /\ frames_call' = [frames_call EXCEPT !.pc = "returned"]

FramesIdle == frames_call = [pc |-> "idle"]

(***************************************************************************)
(* The photo tables between the metadata stages and the download stages:   *)
(* the upserts of app/repository.py write the scraped attributes,          *)
(* download_photo (app/photo_downloader.py) and                            *)
(* _download_single_panorama_photo (app/panorama_downloader.py) write the  *)
(* path of the downloaded file.                                            *)
(***************************************************************************)
LocalPaths == {"10/100/1.jpg"}

(* `photo.local_path = relative_path` committed by the download step. *)
StoreLocalPath(e) ==
    /\ entity = e
    /\ nth = 0
    /\ \E r \in storage[e], path \in LocalPaths :
         /\ r.local_path = "None"
         /\ storage' = [storage EXCEPT
                          ![e] = (@ \ {r}) \cup {[r EXCEPT !.local_path = path]}]
    /\ UNCHANGED <<entity, last_batch, last_before, last_result, nth>>

----------------------------------------------------------------------------
(* The records parse_all_photos (app/photo_parser.py) buffers and writes.  *)
(* The records of PhotoData are followed one by one; a page holds at most  *)
(* one of them besides any number of records with other ids, which count   *)
(* for len(all_photos_batch) only: what upsert_photos does to the row of   *)
(* an id depends on the records of that id alone. Every write succeeds.    *)

(* A parsed page: its followed records and the number of its other ones. *)
FollowedPages == {<<>>} \cup {<<r>> : r \in PhotoData}
OtherRecords == {0, 100, 199}

(* One combination: `all_photos_batch.extend(photos)`, and the write of a  *)
(* batch that has reached batch_size.                                      *)
ExtendBatch ==
    /\ enumeration.pc = "loop"
    /\ enumeration.processed < MaxCombinations
    /\ \E followed \in FollowedPages, others \in OtherRecords :
         LET extended == enumeration.all_photos_batch \o followed
             length == enumeration.len + Len(followed) + others
             next == [enumeration EXCEPT !.processed = @ + 1,
                                         !.enumerated = @ \o followed]
         IN IF Len(followed) + others > 0 /\ length >= batch_size
            THEN enumeration' =
                    [next EXCEPT !.photo_rows = upsert_photos(@, extended).rows,
                                 !.all_photos_batch = <<>>,
                                 !.len = 0]
            ELSE enumeration' = [next EXCEPT !.all_photos_batch = extended,
                                             !.len = length]

(* `if all_photos_batch:` after the loop: the rest is written. *)
WriteRest ==
    /\ enumeration.pc = "loop"
    /\ enumeration' =
          [enumeration EXCEPT
              !.pc = "returned",
              !.photo_rows = IF enumeration.len > 0
                             THEN upsert_photos(@, enumeration.all_photos_batch).rows
                             ELSE @,
              !.all_photos_batch = <<>>,
              !.len = 0]

ChunksIdle == enumeration = [pc |-> "idle"]

----------------------------------------------------------------------------
(* parse_panorama_colors (app/panorama_parser.py), called as main() calls  *)
(* it, without an ext id, for a spec that exists: the resolver returns an  *)
(* id or None, the payload of get_pano_baseinfo for that id is parsed, and *)
(* one session writes the colours and backfills the id.                    *)

(* What find_ext_id_for_spec can return: None, or an id it probed; the     *)
(* explicit page patterns accept any int(match), 0 included.               *)
ResolverResults == {NoneInt, 0, 7, 8}

(* A payload of get_pano_baseinfo: ext.Id (NoneInt when ext or Id is       *)
(* missing) and the entries of color_info with their Id and ColorId.       *)
ColorInfos == [Id : Ids \cup {NoneInt}, ColorId : {NoneInt, 3}]
Payloads ==
    [ext : [Id : {NoneInt, 7, 8}],
     color_info : UNION {[1..n -> ColorInfos] : n \in 0..MaxBatch}]

(* The colours of parse_pano_baseinfo(payload, spec_id): an entry without  *)
(* ColorId is left out, a missing Id is 0, every record carries ext.Id.    *)
parse_pano_baseinfo(payload, sid) ==
    LET RECURSIVE colors(_)
        colors(i) ==
            IF i > Len(payload.color_info) THEN <<>>
            ELSE LET color_info == payload.color_info[i] IN
                 IF color_info.ColorId = NoneInt THEN colors(i + 1)
                 ELSE <<[id |-> IF color_info.Id = NoneInt THEN 0 ELSE color_info.Id,
                         spec_id |-> sid,
                         ext_id |-> payload.ext.Id,
                         base_color_name |-> "c",
                         color_name |-> "c",
                         color_value |-> "c",
                         color_id |-> color_info.ColorId]>> \o colors(i + 1)
    IN colors(1)

(* A mutation of Backfill: every row of the spec gets the id. *)
BackfillEveryRow(rows, sid, ext_id) ==
    {IF r.spec_id = sid THEN [r EXCEPT !.ext_id = ext_id] ELSE r : r \in rows}

(* query(PanoramaColor).filter(spec_id == spec_id, ext_id IS NULL)         *)
(*     .update({ext_id: ext_id})                                           *)
Backfill(rows, sid, ext_id) ==
    {IF r.spec_id = sid /\ r.ext_id = NoneInt THEN [r EXCEPT !.ext_id = ext_id] ELSE r :
        r \in rows}

(* `if ext_id is None: ext_id = find_ext_id_for_spec(...)`; without an id  *)
(* the call returns its zero statistics.                                   *)
ResolveExtId ==
    /\ colors_call.pc = "start"
    /\ \E id \in ResolverResults :
         colors_call' = [colors_call EXCEPT
                            !.ext_id = id,
                            !.pc = IF id = NoneInt THEN "returned" ELSE "resolved"]

(* The payload is fetched and parsed and the session block runs:           *)
(* upsert_panorama_colors, then the backfill under `if ext_id and colors`. *)
(* An exception of the request or inside the block leaves the table as it  *)
(* was and is raised again.                                                *)
StoreColors ==
    /\ colors_call.pc = "resolved"
    /\ \E payload \in Payloads, raises \in BOOLEAN :
         LET colors == parse_pano_baseinfo(payload, colors_call.spec_id)
             upserted == upsert_panorama_colors(colors_call.rows, colors).rows
         IN IF raises
            THEN colors_call' = [colors_call EXCEPT !.pc = "raised"]
            ELSE colors_call' =
                    [colors_call EXCEPT
                        !.pc = "returned",
                        !.colors = colors,
                        !.written = upserted,
                        !.rows = IF Truthy(colors_call.ext_id) /\ colors # <<>>
                                 THEN Backfill(upserted, colors_call.spec_id,
                                               colors_call.ext_id)
                                 ELSE upserted]

ColorsIdle == colors_call = [pc |-> "idle"]

----------------------------------------------------------------------------
(* One unit of the characteristics stage, _parse_and_store_series          *)
(* (app/main.py), with the session of its attempt: the three upserts run   *)
(* inside one `with session_scope(...)` block (app/db.py), which commits   *)
(* when the block ends and rolls back when an exception leaves it.         *)

AttemptTables == {"param_titles", "specs", "param_values"}

(* What one attempt scrapes for a table: nothing or one record. *)
Scraped(e) == {<<>>} \cup {<<r>> : r \in Records(e)}

AttemptErrors == {"deadlock", "other"}

(* A mutation of ExitScope: the session is committed however the block is  *)
(* left.                                                                   *)
ExitCommits(stored, session, raised) == session

(* session_scope: `yield session; session.commit()`, and                   *)
(* `except Exception: session.rollback(); raise`.                          *)
ExitScope(stored, session, raised) == IF raised THEN stored ELSE session

(* The try block up to the session: the records of the series are fetched  *)
(* and parsed, or the request raises.                                      *)
Scrape ==
    /\ series_attempt.pc = "try"
    /\ \/ \E scraped \in [param_titles : Scraped("param_titles"),
                          specs : Scraped("specs"),
                          param_values : Scraped("param_values")] :
             series_attempt' = [series_attempt EXCEPT
                                   !.pc = "param_titles",
                                   !.scraped = scraped,
                                   !.before = series_attempt.committed,
                                   !.session = series_attempt.committed]
       \/ \E error \in AttemptErrors :
             series_attempt' = [series_attempt EXCEPT
                                   !.pc = "except",
                                   !.error = error,
                                   !.before = series_attempt.committed,
                                   !.session = series_attempt.committed]

(* One upsert of the block on the session; an upsert that raises leaves    *)
(* the block.                                                              *)
UpsertInSession(e, then) ==
    /\ series_attempt.pc = e
    /\ \/ series_attempt' =
             [series_attempt EXCEPT
                 !.pc = then,
                 !.session = [@ EXCEPT ![e] = Upsert(e, @, series_attempt.scraped[e]).rows]]
       \/ \E error \in AttemptErrors :
             series_attempt' =
                [series_attempt EXCEPT
                    !.pc = "except",
                    !.error = error,
                    !.committed = ExitScope(@, series_attempt.session, TRUE)]

(* The block ends: session.commit() succeeds or raises. *)
EndOfBlock ==
    /\ series_attempt.pc = "commit"
    /\ \/ series_attempt' =
             [series_attempt EXCEPT
                 !.pc = "returned",
                 !.committed = ExitScope(@, series_attempt.session, FALSE)]
       \/ \E error \in AttemptErrors :
             series_attempt' =
                [series_attempt EXCEPT
                    !.pc = "except",
                    !.error = error,
                    !.committed = ExitScope(@, series_attempt.session, TRUE)]

(* The except branch: a deadlock before the last attempt is retried, any   *)
(* other error is counted and raised. The next iteration starts with empty *)
(* lists and, later, a session of its own.                                 *)
RetryOrRaise ==
    /\ series_attempt.pc = "except"
    /\ IF ShouldRetry(series_attempt.attempt, series_attempt.error)
       THEN series_attempt' =
               [series_attempt EXCEPT
                   !.pc = "try",
                   !.attempt = @ + 1,
                   !.scraped = [e \in AttemptTables |-> <<>>],
                   !.session = series_attempt.committed]
       ELSE series_attempt' = [series_attempt EXCEPT !.pc = "raised"]

NoTables == [e \in AttemptTables |-> {}]

AttemptIdle == series_attempt = [pc |-> "idle"]

----------------------------------------------------------------------------
(* The photo-metadata and photo-download stages of one series under the    *)
(* 360-only switch: main() (app/main.py) reads the specs that have         *)
(* panorama colours once, before the photo stages, and hands the set and   *)
(* the category list to parse_all_photos (app/photo_parser.py) and         *)
(* download_all_photos_for_series (app/photo_downloader.py). The series    *)
(* has the specs Ids, the categories CategoryIds and at least one colour.  *)

CategoryIds == {1, 2}

PhotoRowKeys == [specification_id : Ids, category_id : CategoryIds]

(* A mutation of SkipSpecs: no spec is left out. *)
SkipNoSpecs(specs, only, skip_spec_ids) == specs

(* `skip_spec_ids = specs_with_panorama if settings.photo_360_only else    *)
(* None`, and `if skip_spec_ids:` keep what is not in it.                  *)
SkipSpecs(specs, only, skip_spec_ids) ==
    IF only /\ skip_spec_ids # {} THEN specs \ skip_spec_ids ELSE specs

(* `only_category_ids = settings.photo_360_only_categories if              *)
(* settings.photo_360_only else None`, and `if only_category_ids is not    *)
(* None:` keep what is in it.                                              *)
OnlyCategories(categories, only, only_category_ids) ==
    IF only THEN categories \cap only_category_ids ELSE categories

(* `if settings.photo_360_only:` the distinct spec ids of the panorama     *)
(* colours are read.                                                       *)
ReadPanoramaSpecs ==
    /\ only_360.pc = "snapshot"
    /\ only_360' =
          [only_360 EXCEPT
              !.pc = "photos",
              !.specs_with_panorama =
                  IF only_360.photo_360_only THEN only_360.panorama_spec_ids ELSE {}]

(* parse_all_photos: one get_pic_list call for every spec and category     *)
(* left after the two filters; the records of a page are stored under the  *)
(* requested category and the spec the record names.                       *)
ListPhotos ==
    /\ only_360.pc = "photos"
    /\ LET specs == SkipSpecs(Ids, only_360.photo_360_only,
                              only_360.specs_with_panorama)
           categories == OnlyCategories(CategoryIds, only_360.photo_360_only,
                                        only_360.photo_360_only_categories)
       IN \E stored \in SUBSET [specification_id : Ids, category_id : categories] :
             /\ specs = {} => stored = {}
             /\ only_360' = [only_360 EXCEPT !.pc = "photo_download",
                                             !.listed = specs \X categories,
                                             !.photo_table = @ \cup stored]

(* download_all_photos_for_series: the query for the rows to download with *)
(* its two filters.                                                        *)
SelectPhotos ==
    /\ only_360.pc = "photo_download"
    /\ only_360' =
          [only_360 EXCEPT
              !.pc = "done",
              !.selected =
                  {row \in only_360.photo_table :
                      /\ row.specification_id
                            \in SkipSpecs(Ids, only_360.photo_360_only,
                                          only_360.specs_with_panorama)
                      /\ row.category_id
                            \in OnlyCategories(CategoryIds, only_360.photo_360_only,
                                               only_360.photo_360_only_categories)}]

OnlyIdle == only_360 = [pc |-> "idle"]

nonOrchVars == <<repoVars, resVars, dlVars, runVars, stepVars, raceVars, lockVars, treeVars, pipeVars, paVars, clVars, nwVars, frVars, chVars, coVars, atVars, onVars>>

nonOrchPipeVars == <<repoVars, resVars, dlVars, runVars, stepVars, raceVars, lockVars, treeVars, paVars, clVars, nwVars, frVars, chVars, coVars, atVars, onVars>>

nonRepoVars == <<orchVars, resVars, dlVars, runVars, stepVars, raceVars, lockVars, treeVars, pipeVars, paVars, clVars, nwVars, frVars, chVars, coVars, atVars, onVars>>

nonResVars == <<orchVars, repoVars, dlVars, runVars, stepVars, raceVars, lockVars, treeVars, pipeVars, paVars, clVars, nwVars, frVars, chVars, coVars, atVars, onVars>>

nonDlVars == <<orchVars, repoVars, resVars, runVars, stepVars, raceVars, lockVars, treeVars, pipeVars, paVars, clVars, nwVars, frVars, chVars, coVars, atVars, onVars>>

nonRunVars == <<orchVars, repoVars, resVars, dlVars, stepVars, raceVars, lockVars, treeVars, pipeVars, paVars, clVars, nwVars, frVars, chVars, coVars, atVars, onVars>>

nonStepVars == <<orchVars, repoVars, resVars, dlVars, runVars, raceVars, lockVars, treeVars, pipeVars, paVars, clVars, nwVars, frVars, chVars, coVars, atVars, onVars>>

nonStepDlVars == <<orchVars, repoVars, resVars, runVars, raceVars, lockVars, treeVars, pipeVars, paVars, clVars, nwVars, frVars, chVars, coVars, atVars, onVars>>

nonRaceVars == <<orchVars, repoVars, resVars, dlVars, runVars, stepVars, lockVars, treeVars, pipeVars, paVars, clVars, nwVars, frVars, chVars, coVars, atVars, onVars>>

nonLockVars == <<orchVars, repoVars, resVars, dlVars, runVars, stepVars, raceVars, treeVars, pipeVars, paVars, clVars, nwVars, frVars, chVars, coVars, atVars, onVars>>

nonTreeVars == <<orchVars, repoVars, resVars, dlVars, runVars, stepVars, raceVars, lockVars, pipeVars, paVars, clVars, nwVars, frVars, chVars, coVars, atVars, onVars>>

nonTreeRepoVars == <<orchVars, resVars, dlVars, runVars, stepVars, raceVars, lockVars, pipeVars, paVars, clVars, nwVars, frVars, chVars, coVars, atVars, onVars>>

nonPipeVars == <<orchVars, repoVars, resVars, dlVars, runVars, stepVars, raceVars, lockVars, treeVars, paVars, clVars, nwVars, frVars, chVars, coVars, atVars, onVars>>

nonPaVars == <<orchVars, repoVars, resVars, dlVars, runVars, stepVars, raceVars, lockVars, treeVars, pipeVars, clVars, nwVars, frVars, chVars, coVars, atVars, onVars>>

nonClVars == <<orchVars, repoVars, resVars, dlVars, runVars, stepVars, raceVars, lockVars, treeVars, pipeVars, paVars, nwVars, frVars, chVars, coVars, atVars, onVars>>

nonNwVars == <<orchVars, repoVars, resVars, dlVars, runVars, stepVars, raceVars, lockVars, treeVars, pipeVars, paVars, clVars, frVars, chVars, coVars, atVars, onVars>>

nonFrVars == <<orchVars, repoVars, resVars, dlVars, runVars, stepVars, raceVars, lockVars, treeVars, pipeVars, paVars, clVars, nwVars, chVars, coVars, atVars, onVars>>

nonChVars == <<orchVars, repoVars, resVars, dlVars, runVars, stepVars, raceVars, lockVars, treeVars, pipeVars, paVars, clVars, nwVars, frVars, coVars, atVars, onVars>>

nonCoVars == <<orchVars, repoVars, resVars, dlVars, runVars, stepVars, raceVars, lockVars, treeVars, pipeVars, paVars, clVars, nwVars, frVars, chVars, atVars, onVars>>

nonAtVars == <<orchVars, repoVars, resVars, dlVars, runVars, stepVars, raceVars, lockVars, treeVars, pipeVars, paVars, clVars, nwVars, frVars, chVars, coVars, onVars>>

nonOnVars == <<orchVars, repoVars, resVars, dlVars, runVars, stepVars, raceVars, lockVars, treeVars, pipeVars, paVars, clVars, nwVars, frVars, chVars, coVars, atVars>>

vars == <<orchVars, repoVars, resVars, dlVars, runVars, stepVars, raceVars, lockVars, treeVars, pipeVars, paVars, clVars, nwVars, frVars, chVars, coVars, atVars, onVars>>

Init ==
    /\ stage \in Stages
    /\ workers \in 1..MaxWorkers
    /\ unit_ids \in {1..n : n \in UnitIds}
    /\ queue = <<>>
    /\ futures = [u \in UnitIds |-> "none"]
    /\ attempt = [u \in UnitIds |-> 0]
    /\ calls = [u \in UnitIds |-> <<>>]
    /\ sleeps = [u \in UnitIds |-> <<>>]
    /\ starts = [u \in UnitIds |-> 0]
    /\ progress_counter = [parsed |-> 0, errors |-> 0, skipped_no_panorama |-> 0]
    /\ collected = {}
    /\ mainpc = "submit"
    /\ RepoIdle
    /\ ResolverIdle
    /\ DownloadIdle
    /\ RunIdle
    /\ StepIdle
    /\ RaceIdle
    /\ LockIdle
    /\ TreeIdle
    /\ PipeIdle
    /\ PhotosIdle
    /\ ClassifyIdle
    /\ NestedIdle
    /\ FramesIdle
    /\ ChunksIdle
    /\ ColorsIdle
    /\ AttemptIdle
    /\ OnlyIdle

Next ==
    \/ Submit /\ UNCHANGED nonOrchVars
    \/ WorkerStart /\ UNCHANGED nonOrchVars
    \/ \E u \in UnitIds : parse_and_store_series(u) /\ UNCHANGED nonOrchVars
    \/ \E u \in UnitIds : parse_photos_for_series(u) /\ UNCHANGED nonOrchVars
    \/ \E u \in UnitIds : download_photos_for_series(u) /\ UNCHANGED nonOrchVars
    \/ \E u \in UnitIds : parse_panoramas_for_spec(u) /\ UNCHANGED nonOrchVars
    \/ \E u \in UnitIds : download_panoramas_for_spec(u) /\ UNCHANGED nonOrchVars
    \/ \E u \in UnitIds : Collect(u) /\ UNCHANGED nonOrchVars
    \/ PoolDrained /\ UNCHANGED nonOrchVars

Spec == Init /\ [][Next]_vars

InitPipeline ==
    /\ stage = "characteristics"
    /\ workers \in 1..MaxWorkers
    /\ unit_ids \in {1..n : n \in UnitIds}
    /\ queue = <<>>
    /\ futures = [u \in UnitIds |-> "none"]
    /\ attempt = [u \in UnitIds |-> 0]
    /\ calls = [u \in UnitIds |-> <<>>]
    /\ sleeps = [u \in UnitIds |-> <<>>]
    /\ starts = [u \in UnitIds |-> 0]
    /\ progress_counter = [parsed |-> 0, errors |-> 0, skipped_no_panorama |-> 0]
    /\ collected = {}
    /\ mainpc = "submit"
    /\ position = "characteristics"
    /\ panoramas_already_parsed = FALSE
    /\ RepoIdle
    /\ ResolverIdle
    /\ DownloadIdle
    /\ RunIdle
    /\ StepIdle
    /\ RaceIdle
    /\ LockIdle
    /\ TreeIdle
    /\ PhotosIdle
    /\ ClassifyIdle
    /\ NestedIdle
    /\ FramesIdle
    /\ ChunksIdle
    /\ ColorsIdle
    /\ AttemptIdle
    /\ OnlyIdle

NextPipeline ==
    \/ Next
    \/ NextStage /\ UNCHANGED nonOrchPipeVars

SpecPipeline == InitPipeline /\ [][NextPipeline]_vars

OrchIdle ==
    /\ stage = "characteristics"
    /\ workers = 1
    /\ unit_ids = {}
    /\ queue = <<>>
    /\ futures = [u \in UnitIds |-> "none"]
    /\ attempt = [u \in UnitIds |-> 0]
    /\ calls = [u \in UnitIds |-> <<>>]
    /\ sleeps = [u \in UnitIds |-> <<>>]
    /\ starts = [u \in UnitIds |-> 0]
    /\ progress_counter = [parsed |-> 0, errors |-> 0, skipped_no_panorama |-> 0]
    /\ collected = {}
    /\ mainpc = "idle"

InitRepo ==
    /\ entity \in Entities
    /\ storage = [e \in Entities |-> {}]
    /\ last_batch = <<>>
    /\ last_before = {}
    /\ last_result = NoResult
    /\ nth = 0
    /\ OrchIdle
    /\ ResolverIdle
    /\ DownloadIdle
    /\ RunIdle
    /\ StepIdle
    /\ RaceIdle
    /\ LockIdle
    /\ TreeIdle
    /\ PipeIdle
    /\ PhotosIdle
    /\ ClassifyIdle
    /\ NestedIdle
    /\ FramesIdle
    /\ ChunksIdle
    /\ ColorsIdle
    /\ AttemptIdle
    /\ OnlyIdle

NextRepo ==
    \/ Apply("brands") /\ UNCHANGED nonRepoVars
    \/ Apply("series") /\ UNCHANGED nonRepoVars
    \/ Apply("specs") /\ UNCHANGED nonRepoVars
    \/ Apply("param_titles") /\ UNCHANGED nonRepoVars
    \/ Apply("param_values") /\ UNCHANGED nonRepoVars
    \/ Apply("photo_colors") /\ UNCHANGED nonRepoVars
    \/ Apply("photo_categories") /\ UNCHANGED nonRepoVars
    \/ Apply("photos") /\ UNCHANGED nonRepoVars
    \/ Apply("panorama_colors") /\ UNCHANGED nonRepoVars
    \/ Apply("panorama_photos") /\ UNCHANGED nonRepoVars
    \/ Reapply /\ UNCHANGED nonRepoVars

SpecRepo == InitRepo /\ [][NextRepo]_vars

InitResolver ==
    /\ res_pc = "saved"
    /\ spec_id \in SpecIds
    /\ found_candidates = {}
    /\ last_probe = NoProbe
    /\ ext_id_from_response = NoneInt
    /\ resolved = NoneInt
    /\ client_calls = <<>>
    /\ OrchIdle
    /\ RepoIdle
    /\ DownloadIdle
    /\ RunIdle
    /\ StepIdle
    /\ RaceIdle
    /\ LockIdle
    /\ TreeIdle
    /\ PipeIdle
    /\ PhotosIdle
    /\ ClassifyIdle
    /\ NestedIdle
    /\ FramesIdle
    /\ ChunksIdle
    /\ ColorsIdle
    /\ AttemptIdle
    /\ OnlyIdle

NextResolver ==
    \/ CheckSaved /\ UNCHANGED nonResVars
    \/ FetchPage /\ UNCHANGED nonResVars
    \/ ProbeCandidate /\ UNCHANGED nonResVars
    \/ ProbeDirect /\ UNCHANGED nonResVars
    \/ ProbeFromResponse /\ UNCHANGED nonResVars

SpecResolver == InitResolver /\ [][NextResolver]_vars

InitDownload ==
    /\ dl_pc = "check"
    /\ file \in Contents \cup {NoFile}
    /\ prior = file
    /\ parent_dir \in {b \in BOOLEAN : file.exists => b}
    /\ prior_parent = parent_dir
    /\ dl_attempt = 0
    /\ requests_made = 0
    /\ unlinked = FALSE
    /\ dl_result = "none"
    /\ dl_sleeps = <<>>
    /\ dl_reason = "none"
    /\ OrchIdle
    /\ RepoIdle
    /\ ResolverIdle
    /\ RunIdle
    /\ StepIdle
    /\ RaceIdle
    /\ LockIdle
    /\ TreeIdle
    /\ PipeIdle
    /\ PhotosIdle
    /\ ClassifyIdle
    /\ NestedIdle
    /\ FramesIdle
    /\ ChunksIdle
    /\ ColorsIdle
    /\ AttemptIdle
    /\ OnlyIdle

NextDownload ==
    \/ PreFetchCheck /\ UNCHANGED nonDlVars
    \/ RequestRaises /\ UNCHANGED nonDlVars
    \/ ResponseArrives /\ UNCHANGED nonDlVars

SpecDownload == InitDownload /\ [][NextDownload]_vars

InitStep ==
    /\ step_pc = "start"
    /\ \E row \in PhotoRows \cup PanoramaRows :
         \E path \in {NoPath, OtherPath,
                      relative_to(Destination(row), base_path)} :
            photo = Loaded(row, path)
    /\ local_path = photo.local_path
    /\ safe_url = NoUrl
    /\ file_path = NoPath
    /\ step_stats = "none"
    /\ dl_pc = "idle"
    /\ file \in Contents \cup {NoFile}
    /\ prior = file
    /\ parent_dir \in {b \in BOOLEAN : file.exists => b}
    /\ prior_parent = parent_dir
    /\ dl_attempt = 0
    /\ requests_made = 0
    /\ unlinked = FALSE
    /\ dl_result = "none"
    /\ dl_sleeps = <<>>
    /\ dl_reason = "none"
    /\ OrchIdle
    /\ RepoIdle
    /\ ResolverIdle
    /\ RunIdle
    /\ RaceIdle
    /\ LockIdle
    /\ TreeIdle
    /\ PipeIdle
    /\ PhotosIdle
    /\ ClassifyIdle
    /\ NestedIdle
    /\ FramesIdle
    /\ ChunksIdle
    /\ ColorsIdle
    /\ AttemptIdle
    /\ OnlyIdle

NextStep ==
    \/ download_photo /\ UNCHANGED nonStepDlVars
    \/ download_all_photos_for_series
          /\ UNCHANGED nonStepDlVars
    \/ download_panorama_photo
          /\ UNCHANGED nonStepDlVars
    \/ download_single_panorama_photo
          /\ UNCHANGED nonStepDlVars
    \/ PreFetchCheck /\ UNCHANGED nonDlVars
    \/ RequestRaises /\ UNCHANGED nonDlVars
    \/ ResponseArrives /\ UNCHANGED nonDlVars

SpecStep == InitStep /\ [][NextStep]_vars

InitRace ==
    /\ upsert_entity \in KeyStable
    /\ committed \in {{}} \cup {{Create(upsert_entity, r)} : r \in Records(upsert_entity)}
    /\ tx \in [Threads -> {[pc |-> "begin", item |-> r, existing |-> {},
                            pending |-> {}] : r \in Records(upsert_entity)}]
    /\ OrchIdle
    /\ RepoIdle
    /\ ResolverIdle
    /\ DownloadIdle
    /\ RunIdle
    /\ StepIdle
    /\ LockIdle
    /\ TreeIdle
    /\ PipeIdle
    /\ PhotosIdle
    /\ ClassifyIdle
    /\ NestedIdle
    /\ FramesIdle
    /\ ChunksIdle
    /\ ColorsIdle
    /\ AttemptIdle
    /\ OnlyIdle

NextRace ==
    \/ \E t \in Threads : Query(t) /\ UNCHANGED nonRaceVars
    \/ \E t \in Threads : Flush(t) /\ UNCHANGED nonRaceVars
    \/ \E t \in Threads : Execute(t) /\ UNCHANGED nonRaceVars
    \/ \E t \in Threads : Commit(t) /\ UNCHANGED nonRaceVars

SpecRace == InitRace /\ [][NextRace]_vars

InitLock ==
    /\ lock_owner = 0
    /\ stats = [c \in Counters |-> 0]
    /\ thread = [u \in UnitIds |->
                   [pc |-> "running", todo |-> <<>>, ok |-> FALSE, loaded |-> 0]]
    /\ contributed = [c \in Counters |-> 0]
    /\ OrchIdle
    /\ RepoIdle
    /\ ResolverIdle
    /\ DownloadIdle
    /\ RunIdle
    /\ StepIdle
    /\ RaceIdle
    /\ TreeIdle
    /\ PipeIdle
    /\ PhotosIdle
    /\ ClassifyIdle
    /\ NestedIdle
    /\ FramesIdle
    /\ ChunksIdle
    /\ ColorsIdle
    /\ AttemptIdle
    /\ OnlyIdle

NextLock ==
    \/ \E u \in UnitIds : Acquire(u) /\ UNCHANGED nonLockVars
    \/ \E u \in UnitIds : Load(u) /\ UNCHANGED nonLockVars
    \/ \E u \in UnitIds : Store(u) /\ UNCHANGED nonLockVars

SpecLock == InitLock /\ [][NextLock]_vars

InitTree ==
    /\ tree_pc = "store_tree"
    /\ tree_settings \in [force_reparse : BOOLEAN, parse_photos : BOOLEAN,
                          download_photos : BOOLEAN]
    /\ original_series_ids \in SUBSET Ids \ {{}}
    /\ series_ids = original_series_ids
    /\ todo = {}
    /\ series_ids_for_photos = {}
    /\ series_ids_for_download = {}
    /\ entity = "brands"
    /\ \E earlier \in SUBSET Ids, with_photos \in BOOLEAN :
         storage = [e \in Entities |->
                      CASE e = "series" -> {SeriesItem(s) : s \in earlier}
                        [] e = "specs" -> {SpecItem(s, s) : s \in earlier}
                        [] e = "photos" ->
                              IF with_photos
                              THEN {Create("photos", PhotoItem(s)) : s \in earlier}
                              ELSE {}
                        [] OTHER -> {}]
    /\ last_batch = <<>>
    /\ last_before = {}
    /\ last_result = NoResult
    /\ nth = 0
    /\ OrchIdle
    /\ ResolverIdle
    /\ DownloadIdle
    /\ RunIdle
    /\ StepIdle
    /\ RaceIdle
    /\ LockIdle
    /\ PipeIdle
    /\ PhotosIdle
    /\ ClassifyIdle
    /\ NestedIdle
    /\ FramesIdle
    /\ ChunksIdle
    /\ ColorsIdle
    /\ AttemptIdle
    /\ OnlyIdle

TreeFrame == UNCHANGED <<entity, last_batch, last_before, last_result, nth>>

NextTree ==
    \/ StoreTree /\ TreeFrame /\ UNCHANGED nonTreeRepoVars
    \/ FilterSeries /\ TreeFrame /\ UNCHANGED nonTreeRepoVars
    \/ \E s \in Ids : CharacteristicsUnit(s) /\ TreeFrame /\ UNCHANGED nonTreeRepoVars
    \/ EnterPhotos /\ TreeFrame /\ UNCHANGED nonTreeRepoVars
    \/ \E s \in Ids : PhotosUnit(s) /\ TreeFrame /\ UNCHANGED nonTreeRepoVars
    \/ EnterPhotoDownload /\ TreeFrame /\ UNCHANGED nonTreeRepoVars

SpecTree == InitTree /\ [][NextTree]_vars

InitPhotos ==
    /\ pa_pc = "loop"
    /\ combinations \in 1..MaxCombinations
    /\ processed_combinations = 0
    /\ all_photos_batch = 0
    /\ total_errors = 0
    /\ pa_attempt = 0
    /\ pa_sleeps = <<>>
    /\ photos_errors = 0
    /\ contended = 0
    /\ OrchIdle
    /\ RepoIdle
    /\ ResolverIdle
    /\ DownloadIdle
    /\ RunIdle
    /\ StepIdle
    /\ RaceIdle
    /\ LockIdle
    /\ TreeIdle
    /\ PipeIdle
    /\ ClassifyIdle
    /\ NestedIdle
    /\ FramesIdle
    /\ ChunksIdle
    /\ ColorsIdle
    /\ AttemptIdle
    /\ OnlyIdle

NextPhotos ==
    \/ PageFails /\ UNCHANGED nonPaVars
    \/ PageParsed /\ UNCHANGED nonPaVars
    \/ FinalChunk /\ UNCHANGED nonPaVars

SpecPhotos == InitPhotos /\ [][NextPhotos]_vars

InitClassify ==
    /\ except_branch \in [error_msg : Messages,
                          attempt : 0..(max_retries - 1),
                          decision : {"none"}]
    /\ OrchIdle
    /\ RepoIdle
    /\ ResolverIdle
    /\ DownloadIdle
    /\ RunIdle
    /\ StepIdle
    /\ RaceIdle
    /\ LockIdle
    /\ TreeIdle
    /\ PipeIdle
    /\ PhotosIdle
    /\ NestedIdle
    /\ FramesIdle
    /\ ChunksIdle
    /\ ColorsIdle
    /\ AttemptIdle
    /\ OnlyIdle

NextClassify ==
    \/ ExceptBranch /\ UNCHANGED nonClVars

SpecClassify == InitClassify /\ [][NextClassify]_vars

InitNested ==
    /\ nested_pool \in [parse_workers : 1..MaxParseWorkers,
                        photo_workers_per_spec : {0}]
    /\ OrchIdle
    /\ RepoIdle
    /\ ResolverIdle
    /\ DownloadIdle
    /\ RunIdle
    /\ StepIdle
    /\ RaceIdle
    /\ LockIdle
    /\ TreeIdle
    /\ PipeIdle
    /\ PhotosIdle
    /\ ClassifyIdle
    /\ FramesIdle
    /\ ChunksIdle
    /\ ColorsIdle
    /\ AttemptIdle
    /\ OnlyIdle

NextNested ==
    \/ SizeNestedPool /\ UNCHANGED nonNwVars

SpecNested == InitNested /\ [][NextNested]_vars

InitFrames ==
    /\ frames_call \in [pc : {"start"},
                        total_photos : 0..MaxFrames,
                        max_workers : 1..MaxWorkers,
                        frame : {[f \in FrameIds |-> NoFrame]},
                        submits : {[f \in FrameIds |-> 0]},
                        stats : {[downloaded |-> 0, skipped |-> 0, errors |-> 0]},
                        lock : {0}]
    /\ OrchIdle
    /\ RepoIdle
    /\ ResolverIdle
    /\ DownloadIdle
    /\ RunIdle
    /\ StepIdle
    /\ RaceIdle
    /\ LockIdle
    /\ TreeIdle
    /\ PipeIdle
    /\ PhotosIdle
    /\ ClassifyIdle
    /\ NestedIdle
    /\ ChunksIdle
    /\ ColorsIdle
    /\ AttemptIdle
    /\ OnlyIdle

NextFrames ==
    \/ SubmitFrames /\ UNCHANGED nonFrVars
    \/ \E f \in FrameIds : FrameRuns(f) /\ UNCHANGED nonFrVars
    \/ \E f \in FrameIds : FrameLoad(f) /\ UNCHANGED nonFrVars
    \/ \E f \in FrameIds : FrameStore(f) /\ UNCHANGED nonFrVars
    \/ ReturnStats /\ UNCHANGED nonFrVars

SpecFrames == InitFrames /\ [][NextFrames]_vars

InitPaths ==
    /\ entity \in {"photos", "panorama_photos"}
    /\ storage = [e \in Entities |-> {}]
    /\ last_batch = <<>>
    /\ last_before = {}
    /\ last_result = NoResult
    /\ nth = 0
    /\ OrchIdle
    /\ ResolverIdle
    /\ DownloadIdle
    /\ RunIdle
    /\ StepIdle
    /\ RaceIdle
    /\ LockIdle
    /\ TreeIdle
    /\ PipeIdle
    /\ PhotosIdle
    /\ ClassifyIdle
    /\ NestedIdle
    /\ FramesIdle
    /\ ChunksIdle
    /\ ColorsIdle
    /\ AttemptIdle
    /\ OnlyIdle

NextPaths ==
    \/ Apply("photos") /\ UNCHANGED nonRepoVars
    \/ Apply("panorama_photos") /\ UNCHANGED nonRepoVars
    \/ StoreLocalPath("photos") /\ UNCHANGED nonRepoVars
    \/ StoreLocalPath("panorama_photos") /\ UNCHANGED nonRepoVars

SpecPaths == InitPaths /\ [][NextPaths]_vars

InitChunks ==
    /\ enumeration = [pc |-> "loop", processed |-> 0, enumerated |-> <<>>,
                      all_photos_batch |-> <<>>, len |-> 0, photo_rows |-> {}]
    /\ OrchIdle
    /\ RepoIdle
    /\ ResolverIdle
    /\ DownloadIdle
    /\ RunIdle
    /\ StepIdle
    /\ RaceIdle
    /\ LockIdle
    /\ TreeIdle
    /\ PipeIdle
    /\ PhotosIdle
    /\ ClassifyIdle
    /\ NestedIdle
    /\ FramesIdle
    /\ ColorsIdle
    /\ AttemptIdle
    /\ OnlyIdle

NextChunks ==
    \/ ExtendBatch /\ UNCHANGED nonChVars
    \/ WriteRest /\ UNCHANGED nonChVars

SpecChunks == InitChunks /\ [][NextChunks]_vars

InitColors ==
    /\ \E sid \in {1, 2} :
       \E table \in {rows \in SUBSET [id : Ids, spec_id : {1, 2}, ext_id : {NoneInt, 7},
                                      base_color_name : {"c"}, color_name : {"c"},
                                      color_value : {"c"}, color_id : {3}] :
                        \A r, q \in rows : r.id = q.id => r = q} :
          colors_call = [pc |-> "start", spec_id |-> sid, ext_id |-> NoneInt,
                         colors |-> <<>>, before |-> table, written |-> table,
                         rows |-> table]
    /\ OrchIdle
    /\ RepoIdle
    /\ ResolverIdle
    /\ DownloadIdle
    /\ RunIdle
    /\ StepIdle
    /\ RaceIdle
    /\ LockIdle
    /\ TreeIdle
    /\ PipeIdle
    /\ PhotosIdle
    /\ ClassifyIdle
    /\ NestedIdle
    /\ FramesIdle
    /\ ChunksIdle
    /\ AttemptIdle
    /\ OnlyIdle

NextColors ==
    \/ ResolveExtId /\ UNCHANGED nonCoVars
    \/ StoreColors /\ UNCHANGED nonCoVars

SpecColors == InitColors /\ [][NextColors]_vars

InitAttempt ==
    /\ \E stored \in {NoTables} \cup
                     {[NoTables EXCEPT !["specs"] = {Create("specs", r)}] : r \in SpecData} :
          series_attempt = [pc |-> "try", attempt |-> 0, error |-> "none",
                            scraped |-> [e \in AttemptTables |-> <<>>],
                            session |-> stored, before |-> stored,
                            committed |-> stored]
    /\ OrchIdle
    /\ RepoIdle
    /\ ResolverIdle
    /\ DownloadIdle
    /\ RunIdle
    /\ StepIdle
    /\ RaceIdle
    /\ LockIdle
    /\ TreeIdle
    /\ PipeIdle
    /\ PhotosIdle
    /\ ClassifyIdle
    /\ NestedIdle
    /\ FramesIdle
    /\ ChunksIdle
    /\ ColorsIdle
    /\ OnlyIdle

NextAttempt ==
    \/ Scrape /\ UNCHANGED nonAtVars
    \/ UpsertInSession("param_titles", "specs") /\ UNCHANGED nonAtVars
    \/ UpsertInSession("specs", "param_values") /\ UNCHANGED nonAtVars
    \/ UpsertInSession("param_values", "commit") /\ UNCHANGED nonAtVars
    \/ EndOfBlock /\ UNCHANGED nonAtVars
    \/ RetryOrRaise /\ UNCHANGED nonAtVars

SpecAttempt == InitAttempt /\ [][NextAttempt]_vars

InitOnly ==
    /\ only_360 \in [pc : {"snapshot"},
                     photo_360_only : BOOLEAN,
                     photo_360_only_categories : SUBSET (CategoryIds \cup {9}),
                     panorama_spec_ids : SUBSET Ids,
                     specs_with_panorama : {{}},
                     photo_table : SUBSET PhotoRowKeys,
                     listed : {{}},
                     selected : {{}}]
    /\ OrchIdle
    /\ RepoIdle
    /\ ResolverIdle
    /\ DownloadIdle
    /\ RunIdle
    /\ StepIdle
    /\ RaceIdle
    /\ LockIdle
    /\ TreeIdle
    /\ PipeIdle
    /\ PhotosIdle
    /\ ClassifyIdle
    /\ NestedIdle
    /\ FramesIdle
    /\ ChunksIdle
    /\ ColorsIdle
    /\ AttemptIdle

NextOnly ==
    \/ ReadPanoramaSpecs /\ UNCHANGED nonOnVars
    \/ ListPhotos /\ UNCHANGED nonOnVars
    \/ SelectPhotos /\ UNCHANGED nonOnVars

SpecOnly == InitOnly /\ [][NextOnly]_vars

InitRun ==
    /\ run_pc = "characteristics"
    /\ settings \in Settings
    /\ entered = {}
    /\ pools = NoPools
    /\ summary_emitted = FALSE
    /\ OrchIdle
    /\ RepoIdle
    /\ ResolverIdle
    /\ DownloadIdle
    /\ StepIdle
    /\ RaceIdle
    /\ LockIdle
    /\ TreeIdle
    /\ PipeIdle
    /\ PhotosIdle
    /\ ClassifyIdle
    /\ NestedIdle
    /\ FramesIdle
    /\ ChunksIdle
    /\ ColorsIdle
    /\ AttemptIdle
    /\ OnlyIdle

NextRun ==
    \/ Characteristics /\ UNCHANGED nonRunVars
    \/ \E i \in 2..6 : LaterStage(i) /\ UNCHANGED nonRunVars
    \/ Summary /\ UNCHANGED nonRunVars

(* main() is one thread that is never blocked for good: a pool drains      *)
(* (C9), so the step it is at is eventually taken.                         *)
SpecRun == InitRun /\ [][NextRun]_vars /\ WF_vars(NextRun)

----------------------------------------------------------------------------
(* Claims about the orchestrator, checked under Spec. *)

AllDeadlock(u) ==
    /\ calls[u] # <<>>
    /\ \A i \in 1..Len(calls[u]) : is_deadlock(calls[u][i])

(* C1: in each of the five wrappers, a unit whose handler has raised the   *)
(* deadlock error on every attempt is invoked again until it has been      *)
(* invoked exactly 3 times, sleeps 100 ms after the first failure and      *)
(* 200 ms after the second, and ends terminally (error counted) after the  *)
(* third failure with no third sleep and no fourth invocation.             *)
C1_RetryBound ==
    \A u \in UnitIds :
        AllDeadlock(u) =>
            /\ Len(calls[u]) <= 3
            /\ Len(calls[u]) < 3 =>
                  /\ futures[u] = "running"
                  /\ sleeps[u] = [i \in 1..Len(calls[u]) |-> 100 * i]
            /\ Len(calls[u]) = 3 =>
                  /\ futures[u] \in {"returned", "raised"}
                  /\ sleeps[u] = <<100, 200>>
                  /\ progress_counter.errors >= 1

C1_Witness ==
    \E u \in UnitIds :
        /\ calls[u] = <<"deadlock", "deadlock", "deadlock">>
        /\ futures[u] \in {"returned", "raised"}
        /\ sleeps[u] = <<100, 200>>

(* C8: a handler error that is not transient contention (the missing      *)
(* series/spec row included) ends the unit on the attempt that raised it:  *)
(* it is the last invocation of the handler for that unit.                 *)
C8_NonTransientAttemptedOnce ==
    \A u \in UnitIds :
        \A i \in 1..Len(calls[u]) :
            (calls[u][i] \in Errors /\ ~is_deadlock(calls[u][i])) =>
                /\ i = Len(calls[u])
                /\ futures[u] \in {"returned", "raised"}

(* C9: every submitted id is started exactly once, never twice; while the  *)
(* stage has not drained some step is always possible, whatever units have *)
(* failed; and when the pool has drained every submitted id has run to its *)
(* end.                                                                    *)
C9_EveryUnitRuns ==
    /\ \A u \in UnitIds : starts[u] <= 1
    /\ mainpc # "done" => ENABLED Next
    /\ mainpc = "done" =>
          \A u \in unit_ids : starts[u] = 1 /\ futures[u] \in {"returned", "raised"}

C9_Witness ==
    /\ mainpc = "done"
    /\ stage = "characteristics"
    /\ \E u, v \in unit_ids :
          /\ futures[u] = "raised" /\ calls[u] = <<"missing">>
          /\ futures[v] = "returned" /\ calls[v][Len(calls[v])] = "ok"

LastCallFailed(u) ==
    /\ calls[u] # <<>>
    /\ calls[u][Len(calls[u])] \in Errors
    /\ ~(stage = "panoramas" /\ is_no_panorama(calls[u][Len(calls[u])]))

(* C10: a characteristics unit that fails terminally is counted as an     *)
(* error and its wrapper raises; a unit of the four photo/panorama stages  *)
(* that fails terminally is counted as an error and its wrapper returns    *)
(* normally: those wrappers never raise.                                   *)
C10_PropagateOrSwallow ==
    /\ stage = "characteristics" =>
          /\ \A u \in UnitIds :
                (futures[u] \in {"returned", "raised"} /\ LastCallFailed(u))
                    <=> futures[u] = "raised"
          /\ progress_counter.errors =
                Cardinality({u \in UnitIds : futures[u] = "raised"})
    /\ stage # "characteristics" =>
          /\ \A u \in UnitIds : futures[u] # "raised"
          /\ progress_counter.errors >=
                Cardinality({u \in UnitIds :
                               futures[u] = "returned" /\ LastCallFailed(u)})

C10_Witness ==
    /\ stage = "panorama_download"
    /\ \E u \in UnitIds :
          /\ futures[u] = "returned"
          /\ calls[u] = <<"deadlock", "deadlock", "deadlock">>
          /\ progress_counter.errors = 1

(* The resolver yielded none in the unit's last handler invocation. *)
NoPanorama(u) ==
    /\ calls[u] # <<>>
    /\ calls[u][Len(calls[u])] \in {"unresolved", "nopano"}

(* C14: in the panorama-metadata stage a spec for which the resolver       *)
(* yields none completes its unit, adds nothing to the error counter and   *)
(* is counted exactly once in the no-panorama counter.                     *)
C14_NoPanoramaCounted ==
    stage = "panoramas" =>
        /\ \A u \in UnitIds : NoPanorama(u) => futures[u] = "returned"
        /\ progress_counter.skipped_no_panorama =
              Cardinality({u \in UnitIds : NoPanorama(u)})
        /\ progress_counter.errors <=
              Cardinality({u \in UnitIds : calls[u] # <<>> /\ ~NoPanorama(u)}) * 3

(* C25: a unit that ends in a terminal failure adds exactly one to its     *)
(* stage's error counter, whatever the error, and a unit that succeeds     *)
(* (possibly after retried attempts) adds nothing: when the pool has       *)
(* drained the error counter is the number of units whose wrapper ended    *)
(* with a failed last attempt.                                             *)
C25_OneErrorPerFailedUnit ==
    mainpc = "done" =>
        progress_counter.errors =
            Cardinality({u \in UnitIds :
                           futures[u] \in {"returned", "raised"}
                           /\ LastCallFailed(u)})

----------------------------------------------------------------------------
(* Claims about the reconciliation repository, checked under SpecRepo.     *)

Table == storage[entity]

(* The positions of the observed batch that hold the key of position i. *)
SameKey(i) ==
    {j \in 1..Len(last_batch) :
        KeyOf(entity, last_batch[j]) = KeyOf(entity, last_batch[i])}

FirstOf(i) == CHOOSE j \in SameKey(i) : \A k \in SameKey(i) : j <= k

(* C3: applying the same batch twice in sequence leaves the stored rows    *)
(* of every entity type identical to the rows after the first application. *)
C3_IdempotentState == nth = 2 => Table = last_before

(* C4: the second application of the same batch reports inserted = 0 for   *)
(* every entity type.                                                      *)
C4_SecondReportsNoInsert == nth = 2 => last_result.inserted = 0

(* Some other record of the batch names the same (spec, title, sub name)   *)
(* under another item name, so that reconciliation may remove the row.     *)
Contested(i) ==
    /\ entity = "param_values"
    /\ \E j \in 1..Len(last_batch) :
          /\ TitleKey(last_batch[j]) = TitleKey(last_batch[i])
          /\ j \notin SameKey(i)

RowsFor(rows, rec) == {r \in rows : TitleKey(r) = TitleKey(rec)}

(* An upsert_param_values call of a single record on a table holding       *)
(* exactly one row for the record's (spec, title, sub name).               *)
C6_Case ==
    /\ entity = "param_values"
    /\ nth >= 1
    /\ Len(last_batch) = 1
    /\ Cardinality(RowsFor(last_before, last_batch[1])) = 1

C6_Old == CHOOSE r \in RowsFor(last_before, last_batch[1]) : TRUE

(* The outcome of the case when B is the name the record is taken to       *)
(* carry: another name replaces the row, the same name keeps it and        *)
(* updates its value.                                                      *)
C6_Outcome(B) ==
    LET rec == last_batch[1] IN
    /\ Table \ RowsFor(Table, rec) = last_before \ RowsFor(last_before, rec)
    /\ IF B # C6_Old.item_name
       THEN /\ RowsFor(Table, rec) =
                  {[specification_id |-> rec.specification_id,
                    title_id |-> rec.title_id, item_name |-> B,
                    sub_name |-> OrEmpty(rec.sub_name), value |-> rec.value]}
            /\ C6_Old \notin Table
            /\ last_result.inserted = 1 /\ last_result.updated = 0
       ELSE /\ RowsFor(Table, rec) = {[C6_Old EXCEPT !.value = rec.value]}
            /\ last_result.inserted = 0 /\ last_result.updated = 1

(* C6 as stated: with a stored row named A and an incoming record named B  *)
(* for the same (spec, title, sub name), B # A leaves exactly one row,     *)
(* named B with the incoming value, and no row named A; B = A keeps the    *)
(* row and updates only its value.                                         *)
C6_StaleNameAsStated == C6_Case => C6_Outcome(last_batch[1].item_name)

(* C6 amended: the same, with B taken as the first 512 characters of the   *)
(* incoming item name, which is what is compared with A and stored.        *)
C6_StaleNameTruncated == C6_Case => C6_Outcome(Trunc512(last_batch[1].item_name))

(* A stored row named A was replaced by one named B. *)
C6_Witness ==
    /\ C6_Case
    /\ nth = 1
    /\ Trunc512(last_batch[1].item_name) # C6_Old.item_name
    /\ C6_Old \notin Table
    /\ \E r \in Table : r.item_name = Trunc512(last_batch[1].item_name)

(* C17: after any sequence of upsert_param_values calls, whatever the      *)
(* batches, storage holds at most one ParamValue row for each              *)
(* (spec id, title id, sub name).                                          *)
C17_OneRowPerTitleKey ==
    entity = "param_values" =>
        \A r1, r2 \in storage["param_values"] :
            TitleKey(r1) = TitleKey(r2) => r1 = r2

----------------------------------------------------------------------------
(* Claims about the ext-id resolver, checked under SpecResolver.           *)

(* C2: whenever find_ext_id_for_spec returns an id, the call's latest      *)
(* probe of the authoritative endpoint was made with that id, got a        *)
(* response, and the response echoed the spec id asked for.                *)
C2_ReturnedIdConfirmed ==
    (res_pc = "done" /\ resolved # NoneInt) =>
        /\ last_probe.id = resolved
        /\ last_probe.ok
        /\ last_probe.SpecId = spec_id

(* An id other than the spec id was returned after candidates of the page  *)
(* were probed.                                                            *)
C2_Witness ==
    /\ res_pc = "done"
    /\ resolved # NoneInt
    /\ resolved # spec_id
    /\ last_probe.id = resolved

(* The step taken is the direct probe of the spec id and what follows it. *)
DirectProbeStep ==
    /\ last_probe'.id = spec_id
    /\ IF last_probe'.ok /\ last_probe'.SpecId = spec_id
       THEN res_pc' = "done" /\ resolved' = spec_id
       ELSE IF last_probe'.ok /\ last_probe'.Id \notin {NoneInt, 0, spec_id}
       THEN res_pc' = "from_response" /\ ext_id_from_response' = last_probe'.Id
       ELSE res_pc' = "done" /\ resolved' = NoneInt

(* The step taken is the single probe of the alternate id, which ends the  *)
(* call.                                                                   *)
AlternateProbeStep ==
    /\ last_probe'.id = ext_id_from_response
    /\ res_pc' = "done"
    /\ resolved' = IF last_probe'.ok /\ last_probe'.SpecId = spec_id
                   THEN ext_id_from_response ELSE NoneInt

(* C15: when neither the saved id nor a candidate of the page is confirmed *)
(* the call goes on to probe the spec id itself and returns it when the    *)
(* response echoes the spec id; otherwise an alternate id of the response  *)
(* that differs from the spec id is probed exactly once and returned only  *)
(* when its response echoes the spec id; otherwise none is returned.       *)
C15_DirectAndAlternateProbe ==
    [][/\ (res_pc \in {"saved", "page", "candidates"} /\ res_pc' = "done") =>
              resolved' # NoneInt
       /\ res_pc' = "direct" => res_pc \in {"page", "candidates"}
       /\ res_pc = "direct" => DirectProbeStep
       /\ res_pc = "from_response" => AlternateProbeStep]_vars

(* The alternate id of the direct probe's response was probed and          *)
(* returned.                                                               *)
C15_Witness ==
    /\ res_pc = "done"
    /\ resolved = ext_id_from_response
    /\ resolved \notin {NoneInt, spec_id}
    /\ last_probe.id = resolved

----------------------------------------------------------------------------
(* Claims about the image downloader, checked under SpecDownload.          *)

(* The file has at least the minimum size and begins with the signature    *)
(* of a JPEG, PNG, GIF or WebP image.                                      *)
PassesChecks(f) ==
    /\ f.exists
    /\ f.size >= 1024
    /\ f.head \in {"JPEG", "PNG", "GIF8", "RIFF_WEBP"}

(* C7: (i) with an existing file that has the minimum size and a known     *)
(* image signature the call returns success, issues no request and leaves  *)
(* the file as it was; (ii) an existing file that fails either check is    *)
(* deleted before any request, and after the call the destination is       *)
(* absent or holds content that passed the checks.                         *)
C7_PreFetchCheck ==
    /\ (dl_pc = "done" /\ PassesChecks(prior)) =>
          /\ dl_result = "True"
          /\ requests_made = 0
          /\ file = prior
          /\ ~unlinked
    /\ (dl_pc \in {"fetch", "done"} /\ prior.exists /\ ~PassesChecks(prior)) =>
          /\ unlinked
          /\ ~file.exists \/ PassesChecks(file)
          /\ requests_made > 0 => (dl_pc = "done" \/ ~file.exists)
    /\ dl_pc = "fetch" => ~file.exists

(* An invalid file of sufficient size was deleted and a fetched image      *)
(* took its place.                                                         *)
C7_Witness ==
    /\ dl_pc = "done"
    /\ prior.exists
    /\ prior.size >= 1024
    /\ ~PassesChecks(prior)
    /\ unlinked
    /\ file.exists
    /\ dl_result = "True"

(* C12: a response with a declared non-image content type, a body below  *)
(* the minimum size or a body without a known image signature ends the     *)
(* call with failure at that request: the call is over, it made no request *)
(* after the ones that failed before the response, and the destination     *)
(* holds no file.                                                          *)
C12_ValidationFailureNotRetried ==
    dl_reason \in {"content_type", "size", "signature"} =>
        /\ dl_pc = "done"
        /\ dl_result = "False"
        /\ requests_made = dl_attempt + 1
        /\ ~file.exists
        /\ ~ENABLED NextDownload

(* The first response had an image content type and a body of sufficient   *)
(* size that is no image: the call failed after one request.               *)
C12_Witness ==
    /\ dl_reason = "signature"
    /\ requests_made = 1
    /\ dl_result = "False"
    /\ dl_pc = "done"

(* C13: while requests fail at the network level the call issues one       *)
(* request per attempt and waits 500 ms x attempt number between them;     *)
(* after the third failure it returns failure having issued exactly 3      *)
(* requests and waited 500 ms and 1000 ms; a request that succeeds ends    *)
(* the retrying.                                                           *)
C13_NetworkRetry ==
    /\ dl_sleeps = [i \in 1..Len(dl_sleeps) |-> 500 * i]
    /\ dl_pc = "fetch" =>
          /\ dl_attempt < 3
          /\ requests_made = dl_attempt
          /\ Len(dl_sleeps) = dl_attempt
    /\ dl_reason = "network" =>
          /\ dl_pc = "done"
          /\ dl_result = "False"
          /\ requests_made = 3
          /\ dl_sleeps = <<500, 1000>>
    /\ dl_reason = "saved" =>
          /\ dl_pc = "done"
          /\ dl_result = "True"
          /\ requests_made = dl_attempt + 1
          /\ Len(dl_sleeps) = dl_attempt
          /\ ~ENABLED NextDownload

(* Three requests failed at the network level. *)
C13_Witness ==
    /\ dl_reason = "network"
    /\ requests_made = 3
    /\ dl_sleeps = <<500, 1000>>
    /\ dl_result = "False"

----------------------------------------------------------------------------
(* Claims about the run of main(), checked under SpecRun.                  *)

(* Every stage the configuration switches on has been entered. *)
EnabledStagesEntered ==
    /\ "characteristics" \in entered
    /\ settings.parse_photos => "photos" \in entered
    /\ settings.download_photos => "photo_download" \in entered
    /\ settings.parse_panoramas =>
          ("panoramas" \in entered \/ "panoramas_first" \in entered)
    /\ settings.download_panoramas => "panorama_download" \in entered

(* C11: after the bootstrap, for any configuration and any outcome of the  *)
(* units (a stage without units included), the run eventually has gone     *)
(* through every enabled stage and emitted the statistics summary.         *)
C11_RunCompletes ==
    <>(run_pc = "returned" /\ summary_emitted /\ EnabledStagesEntered)

----------------------------------------------------------------------------
(* Claims about the download step of a stored row, checked under SpecStep. *)

(* The directory base/s/x/c/k of a Photo row, relative to the base. *)
PhotoDir(row) ==
    ToString(row.series_id) \o "/" \o ToString(row.spec_id) \o "/"
        \o ToString(row.category_id) \o "/" \o ToString(row.color_id)

(* C16: for a stored Photo whose original-image URL has the plain http     *)
(* scheme, every request of the photo-download step goes to the same URL   *)
(* with the https scheme, and when the response body passes validation the *)
(* file is written in base/s/x/c/k/ and Photo.local_path holds the path of *)
(* that file relative to the base directory.                               *)
C16_HttpsUpgradeAndPath ==
    photo.kind = "photo" /\ photo.url.scheme = "http" =>
        /\ requests_made > 0 =>
              safe_url = [scheme |-> "https", rest |-> photo.url.rest,
                          ext |-> photo.url.ext]
        /\ step_pc = "done" /\ dl_reason = "saved" =>
              /\ PassesChecks(file)
              /\ file_path.base = base_path
              /\ \E name \in {"p1_original.jpg", "p1_original.png"} :
                    file_path.rel = PhotoDir(photo) \o "/" \o name
              /\ local_path = [base |-> "", rel |-> file_path.rel]

(* Photo p1 of series 10, spec 100, category 1, colour 0 with an http URL  *)
(* was fetched and stored below base/10/100/1/0/.                          *)
C16_Witness ==
    /\ step_pc = "done"
    /\ photo.kind = "photo"
    /\ photo.url.scheme = "http"
    /\ photo.category_id = 1
    /\ dl_reason = "saved"
    /\ safe_url.scheme = "https"
    /\ local_path = [base |-> "", rel |-> "10/100/1/0/p1_original.jpg"]

(* C18: the local_path of a Photo or PanoramaPhoto row changes only after  *)
(* download_image returned success for the row's destination, which then   *)
(* holds a file that passes validation, and the value written is the       *)
(* destination relative to the base; after a failed download_image the     *)
(* local_path is what it was.                                              *)
C18_LocalPathOnlyAfterSuccess ==
    step_pc # "idle" =>
        /\ local_path # photo.local_path =>
              /\ dl_result = "True"
              /\ PassesChecks(file)
              /\ local_path = [base |-> "", rel |-> file_path.rel]
        /\ dl_result = "False" => local_path = photo.local_path

(* A frame whose local_path named another file was fetched and its         *)
(* local_path replaced.                                                    *)
C18_Witness ==
    /\ step_pc = "done"
    /\ photo.kind = "panorama"
    /\ photo.local_path = OtherPath
    /\ dl_reason = "saved"
    /\ local_path = [base |-> "", rel |-> "10/100/360/3/012.png"]

(* The frame's local_path names the step's destination, which is missing   *)
(* or fails the size or signature check.                                   *)
C19_Case ==
    /\ photo.kind = "panorama"
    /\ photo.url # NoUrl
    /\ photo.local_path = [base |-> "", rel |-> Destination(photo).rel]
    /\ ~PassesChecks(prior)

(* C19: in the panorama-download step, a frame whose local_path is set but *)
(* whose file is missing or fails the minimum-size or signature check is   *)
(* not counted as skipped: a failing file is deleted and the frame is      *)
(* requested again.                                                        *)
C19_StaleFrameRefetched ==
    step_pc = "done" /\ C19_Case =>
        /\ step_stats # "skipped"
        /\ requests_made > 0
        /\ prior.exists => unlinked

----------------------------------------------------------------------------
(* Claims about concurrent upserts, checked under SpecRace.                *)

(* Both threads upsert the same primary key and both calls have ended. *)
C20_Case ==
    /\ upsert_entity \in KeyStable
    /\ KeyOf(upsert_entity, tx[1].item) = KeyOf(upsert_entity, tx[2].item)
    /\ \A t \in Threads : tx[t].pc \in {"committed", "failed"}

(* C20: when two worker threads concurrently upsert records with the same  *)
(* primary key of a key-stable entity, in every interleaving both calls    *)
(* complete without a key-conflict error and storage ends with exactly one *)
(* row for that key.                                                       *)
C20_ConcurrentUpsertSafe ==
    C20_Case =>
        /\ \A t \in Threads : tx[t].pc = "committed"
        /\ Cardinality(Existing(upsert_entity, committed, tx[1].item)) = 1

----------------------------------------------------------------------------
(* Claims about the shared statistics record, checked under SpecLock.      *)

(* C26: under any interleaving of the worker threads, every update of the  *)
(* shared statistics record is made by the thread that holds the mutex and *)
(* none is lost: every counter is the sum of the updates completed so far, *)
(* and when all units have ended parsed + errors is the number of units.   *)
C26_NoLostUpdate ==
    /\ \A u \in UnitIds : thread[u].pc \in {"load", "store"} => lock_owner = u
    /\ \A c \in Counters : stats[c] = contributed[c]
    /\ (\A u \in UnitIds : thread[u].pc = "done") =>
          /\ stats.parsed + stats.errors = Cardinality(UnitIds)
          /\ stats.parsed = Cardinality({u \in UnitIds : thread[u].ok})

(* Two units have ended, one succeeded with two specs inserted and one     *)
(* failed.                                                                 *)
C26_Witness ==
    /\ \A u \in UnitIds : thread[u].pc = "done"
    /\ stats.parsed >= 1
    /\ stats.errors >= 1
    /\ stats.specs_inserted = 2

----------------------------------------------------------------------------
(* Claims about the tree bootstrap and the first stages, checked under     *)
(* SpecTree.                                                               *)

(* C21: in every state of a run, the series id of every stored Spec row    *)
(* is the id of a stored Series row.                                       *)
C21_SpecSeriesStored ==
    \A r \in storage["specs"] :
        \E t \in storage["series"] : t.id = r.series_id

(* A characteristics unit has written a spec of a series that the          *)
(* bootstrap of this run stored.                                           *)
C21_Witness ==
    /\ tree_pc = "characteristics"
    /\ \E r \in storage["specs"] : r.series_id = 2 /\ r.id = 1
    /\ 2 \in series_ids

(* C24: when photo download is enabled, every series for which the         *)
(* photo-metadata stage of this run ran and that has a Photo row is a unit *)
(* of the photo-download stage.                                            *)
C24_PhotoSeriesDownloaded ==
    (tree_pc = "photo_download" /\ tree_settings.download_photos) =>
        \A s \in series_ids_for_photos :
            s \in SeriesOf(storage["photos"]) => s \in series_ids_for_download

----------------------------------------------------------------------------
(* Claims about the sequence of the pools, checked under SpecPipeline.     *)

(* C22: when main() goes on to a later stage, every unit submitted to the  *)
(* pool of the stage before has completed, by returning or by raising, and *)
(* no unit is left in its queue.                                           *)
C22_StagesNotOverlapped ==
    [][position' # position =>
          /\ queue = <<>>
          /\ \A u \in UnitIds : futures[u] \in {"none", "returned", "raised"}
          /\ \E u \in UnitIds : futures[u] # "none"]_vars

(* A unit of the photo-download pool runs after the pools of the           *)
(* characteristics and of the photo metadata have been left.               *)
C22_Witness ==
    /\ position = "photo_download"
    /\ stage = "photo_download"
    /\ futures[1] = "running"

----------------------------------------------------------------------------
(* Claims about the place of the panorama-metadata stage, checked under    *)
(* SpecRun.                                                                *)

(* C23: in a run that goes on past the characteristics stage, the          *)
(* panorama-metadata stage is entered at most once; with 360-only mode and *)
(* panorama parsing both on it is entered before the photo-metadata stage  *)
(* and not again; with panorama parsing on otherwise it is entered after   *)
(* the photo-download stage and before the panorama-download stage; with   *)
(* panorama parsing off it is never entered.                               *)
C23_PanoramasOnce ==
    LET early == settings.photo_360_only /\ settings.parse_panoramas
        Past(s) == \/ run_pc = "returned" /\ summary_emitted
                   \/ /\ run_pc \in {RunOrder[i] : i \in 1..Len(RunOrder)}
                      /\ Position(run_pc) > Position(s)
    IN  /\ ~("panoramas_first" \in entered /\ "panoramas" \in entered)
        /\ ~settings.parse_panoramas =>
              entered \cap {"panoramas_first", "panoramas"} = {}
        /\ early =>
              /\ "panoramas" \notin entered
              /\ Past("panoramas_first") <=> "panoramas_first" \in entered
              /\ "photos" \in entered => "panoramas_first" \in entered
        /\ (settings.parse_panoramas /\ ~early) =>
              /\ "panoramas_first" \notin entered
              /\ Past("panoramas") <=> "panoramas" \in entered
              /\ ("panoramas" \in entered /\ settings.download_photos) =>
                    "photo_download" \in entered
              /\ "panorama_download" \in entered => "panoramas" \in entered

(* A run in 360-only mode has passed the place of the later panorama stage *)
(* with the early one entered, and has entered the panorama download.      *)
C23_Witness ==
    /\ settings.photo_360_only /\ settings.parse_panoramas
    /\ "panoramas_first" \in entered
    /\ "photos" \in entered
    /\ "panorama_download" \in entered
    /\ run_pc = "summary"

----------------------------------------------------------------------------
(* Claims about the calls find_ext_id_for_spec makes, checked under        *)
(* SpecResolver.                                                           *)

(* The steps of the resolver in program order. *)
StepRank(step) ==
    CASE step = "saved" -> 0
      [] step = "page" -> 1
      [] step = "candidate" -> 2
      [] step = "direct" -> 3
      [] step = "from_response" -> 4

(* The step of a call ended with the spec id echoed and nothing raised. *)
Confirmed(call) == call.echo /\ ~call.raised

(* C27: the calls occur in the order saved id, page, candidates, spec id,  *)
(* alternate id; the candidates are probed in strictly ascending order,    *)
(* none of them is the spec id and none left is smaller than one probed;   *)
(* there is at most one probe of the saved id, of the spec id and of an    *)
(* alternate id; no call follows a confirmed step, whose id is returned;   *)
(* a confirmed saved id is the only call; after a saved id that is not     *)
(* confirmed the page is fetched. A saved id whose storage session fails   *)
(* is a failed step, not a confirmed one.                                  *)
C27_ProbeOrder ==
    LET n == Len(client_calls) IN
    /\ \A i, j \in 1..n : i < j =>
          /\ StepRank(client_calls[i].step) <= StepRank(client_calls[j].step)
          /\ client_calls[i].step = client_calls[j].step =>
                /\ client_calls[i].step = "candidate"
                /\ client_calls[i].id < client_calls[j].id
          /\ ~Confirmed(client_calls[i])
    /\ \A i \in 1..n :
          /\ client_calls[i].step = "candidate" =>
                /\ client_calls[i].id # spec_id
                /\ res_pc = "candidates" =>
                      \A c \in found_candidates : client_calls[i].id < c
          /\ client_calls[i].step = "direct" => client_calls[i].id = spec_id
          /\ client_calls[i].step = "from_response" =>
                (i > 1 /\ client_calls[i - 1].step = "direct")
    /\ (n > 0 /\ Confirmed(client_calls[n])) =>
          (res_pc = "done" /\ resolved = client_calls[n].id)
    /\ (n > 0 /\ client_calls[1].step = "saved" /\ ~Confirmed(client_calls[1])
          /\ res_pc # "page") =>
          (n > 1 /\ client_calls[2].step = "page")

(* A saved id was probed and not confirmed, the page gave two candidates   *)
(* that were probed in ascending order, and the spec id and an alternate   *)
(* id were probed after them.                                              *)
C27_Witness ==
    /\ res_pc = "done"
    /\ Len(client_calls) = 6
    /\ client_calls[1].step = "saved"
    /\ client_calls[3].step = "candidate"
    /\ client_calls[4].step = "candidate"
    /\ client_calls[6].step = "from_response"

(* C28: find_ext_id_for_spec ends by returning; a failed storage lookup,   *)
(* page fetch or probe lets the later steps run: the direct probe is       *)
(* reached with every candidate of the page probed, and None is returned   *)
(* only after the direct probe and with no step confirmed.                 *)
C28_FailuresAreNonMatches ==
    /\ res_pc \in {"saved", "page", "candidates", "direct", "from_response", "done"}
    /\ res_pc \in {"direct", "from_response"} => found_candidates = {}
    /\ (res_pc = "done" /\ resolved = NoneInt) =>
          /\ found_candidates = {}
          /\ \E i \in 1..Len(client_calls) : client_calls[i].step = "direct"
          /\ \A i \in 1..Len(client_calls) : ~Confirmed(client_calls[i])

(* The probe of the saved id and the probe of the first candidate raised,  *)
(* the second candidate and the spec id were still probed, and None was    *)
(* returned.                                                               *)
C28_Witness ==
    /\ res_pc = "done"
    /\ resolved = NoneInt
    /\ Len(client_calls) >= 5
    /\ client_calls[1].step = "saved" /\ client_calls[1].raised
    /\ client_calls[3].step = "candidate" /\ client_calls[3].raised
    /\ client_calls[4].step = "candidate"
    /\ client_calls[5].step = "direct"

----------------------------------------------------------------------------
(* Claims about the chunked writes of parse_all_photos, checked under      *)
(* SpecPhotos.                                                             *)

(* C29: a unit in whose enumeration a chunk write failed with a deadlock   *)
(* error has been attempted again after a backoff sleep when it returns.   *)
C29_ChunkContentionRetried ==
    (pa_pc = "returned" /\ contended > 0) => Len(pa_sleeps) > 0

(* C30: while combinations are left to enumerate, the batch holds fewer    *)
(* than batch_size records before the next one is taken, whatever the      *)
(* writes before did.                                                      *)
C30_AtMostOneChunkBuffered ==
    (pa_pc = "loop" /\ processed_combinations < combinations) =>
        all_photos_batch < batch_size

----------------------------------------------------------------------------
(* Claims about the classification of errors, checked under SpecClassify.  *)

(* A lock-wait timeout of the store that does not mention a deadlock. *)
LockWaitTimeout(msg) ==
    /\ \E i \in 1..Len(msg) : Lower(msg[i]) = "lock"
    /\ \E i \in 1..Len(msg) : msg[i] = "timeout"
    /\ \A i \in 1..Len(msg) : Lower(msg[i]) \notin {"deadlock", "deadlockdetected"}

(* C33: an error whose message carries a lock-wait timeout and not the     *)
(* word deadlock is treated by the except branch as a deadlock error is:   *)
(* before the last attempt the wrapper sleeps and tries again.             *)
C33_LockWaitRetried ==
    (except_branch.decision # "none" /\ LockWaitTimeout(except_branch.error_msg)
        /\ except_branch.attempt < max_retries - 1) =>
        except_branch.decision = "sleep_continue"

----------------------------------------------------------------------------
(* Claims about what download_image leaves on disk, checked under          *)
(* SpecDownload.                                                           *)

(* C34: a call that ended in a validation failure has written no file at   *)
(* the destination and has not created the parent directory.               *)
C34_NothingCreatedOnRejection ==
    (dl_pc = "done" /\ dl_reason \in {"content_type", "size", "signature"}) =>
        /\ ~file.exists
        /\ parent_dir = prior_parent

----------------------------------------------------------------------------
(* Claims about the nested frame pool, checked under SpecNested.           *)

(* C35: for every outer worker count the nested pool has at most           *)
(* min(5, W / 2) workers and never more than W.                            *)
C35_NestedPoolSmaller ==
    nested_pool.photo_workers_per_spec # 0 =>
        /\ nested_pool.photo_workers_per_spec <= 5
        /\ 2 * nested_pool.photo_workers_per_spec <= nested_pool.parse_workers
        /\ nested_pool.photo_workers_per_spec <= nested_pool.parse_workers

----------------------------------------------------------------------------
(* Claims about the nested frame downloads, checked under SpecFrames.      *)

(* C36: every listed frame is submitted exactly once, and when the call    *)
(* returns downloaded + skipped + errors is the number of listed frames;   *)
(* before that the sum is the number of frames that have been counted.     *)
C36_EveryFrameCountedOnce ==
    LET sum == frames_call.stats.downloaded + frames_call.stats.skipped + frames_call.stats.errors IN
    /\ frames_call.pc \in {"pool", "returned"} /\ frames_call.total_photos > 0 =>
          \A f \in FrameIds : frames_call.submits[f] = IF f <= frames_call.total_photos THEN 1 ELSE 0
    /\ sum <= frames_call.total_photos
    /\ sum >= Cardinality({f \in FrameIds : frames_call.frame[f].pc = "done"})
    /\ frames_call.pc = "returned" => sum = frames_call.total_photos

(* Two frames were counted by two nested workers, one as an error and one  *)
(* as downloaded, and the call has returned.                               *)
C36_Witness ==
    /\ frames_call.pc = "returned"
    /\ frames_call.total_photos >= 2
    /\ frames_call.max_workers >= 2
    /\ frames_call.stats.errors >= 1
    /\ frames_call.stats.downloaded >= 1

(* Claims about the stored file paths, checked under SpecPaths.            *)

(* C40: an upsert of a Photo or PanoramaPhoto record whose id is already   *)
(* stored leaves the local_path of that row as it was before the call.     *)
C40_LocalPathKept ==
    nth = 1 =>
        \A r \in last_before :
            (\E i \in 1..Len(last_batch) : last_batch[i].id = r.id) =>
                \E kept \in Table :
                    /\ kept.id = r.id
                    /\ kept.local_path = r.local_path

(* A row with a stored path was upserted with other attributes than it     *)
(* held.                                                                   *)
C40_Witness ==
    /\ nth = 1
    /\ \E r \in last_before :
          /\ r.local_path \in LocalPaths
          /\ \E i \in 1..Len(last_batch) : last_batch[i].id = r.id
          /\ r \notin Table

(* Claims about the chunked writes of the enumeration, checked under       *)
(* SpecChunks.                                                             *)

(* C38: when parse_all_photos has returned, the stored row of every photo  *)
(* id holds the attributes of the first record of that id in the           *)
(* enumeration, and the table is the one a single upsert_photos call with  *)
(* the whole enumeration leaves.                                           *)
C38_FirstOccurrenceStored ==
    enumeration.pc = "returned" =>
        /\ enumeration.photo_rows = upsert_photos({}, enumeration.enumerated).rows
        /\ \A i \in 1..Len(enumeration.enumerated) :
              (\A j \in 1..(i - 1) : enumeration.enumerated[j].id # enumeration.enumerated[i].id) =>
                  Create("photos", enumeration.enumerated[i]) \in enumeration.photo_rows

(* Claims about parse_panorama_colors, checked under SpecColors.           *)

(* The call returned after its session block, having resolved an id and    *)
(* parsed at least one colour.                                             *)
C31_Case == colors_call.pc = "returned" /\ colors_call.ext_id # NoneInt /\ colors_call.colors # <<>>

(* What C31 says of a completed call: no row of the spec is left without   *)
(* an ext_id, and the backfill changed nothing but the null ext_id of rows *)
(* of the spec, which now hold the resolved id.                            *)
C31_Outcome ==
    /\ \A r \in colors_call.rows : r.spec_id = colors_call.spec_id => r.ext_id # NoneInt
    /\ \A r \in colors_call.written :
          (r.spec_id # colors_call.spec_id \/ r.ext_id # NoneInt) => r \in colors_call.rows
    /\ \A r \in colors_call.rows \ colors_call.written :
          /\ r.spec_id = colors_call.spec_id
          /\ r.ext_id = colors_call.ext_id
          /\ [r EXCEPT !.ext_id = NoneInt] \in colors_call.written

C37_StoredIdConfirmed ==
    colors_call.pc = "returned" =>
        \A r \in colors_call.rows \ colors_call.before :
            (r.spec_id = colors_call.spec_id /\ r.ext_id # NoneInt) => r.ext_id = colors_call.ext_id

(* Claims about the session of a characteristics attempt, checked under    *)
(* SpecAttempt.                                                            *)

(* The tables the three upserts of the attempt leave when all are applied  *)
(* to the storage the attempt started from.                                *)
AllThree ==
    LET titles == [series_attempt.before EXCEPT
                      !["param_titles"] = upsert_param_titles(@, series_attempt.scraped["param_titles"]).rows]
        specs == [titles EXCEPT
                      !["specs"] = upsert_specs(@, series_attempt.scraped["specs"]).rows]
    IN [specs EXCEPT
           !["param_values"] = upsert_param_values(@, series_attempt.scraped["param_values"]).rows]

(* C39: the title, spec and value upserts of one attempt are committed     *)
(* together or not at all: storage holds the result of all three once the  *)
(* attempt has returned, and before that, after a raised upsert or commit  *)
(* and at the start of a retried attempt, storage is what it was when the  *)
(* attempt started.                                                        *)
C39_AllOrNothing ==
    IF series_attempt.pc = "returned"
    THEN series_attempt.committed = AllThree
    ELSE series_attempt.committed = series_attempt.before

(* An attempt whose session had written titles and specs failed with a     *)
(* deadlock and is about to be retried.                                    *)
C39_Witness ==
    /\ series_attempt.pc = "except"
    /\ ShouldRetry(series_attempt.attempt, series_attempt.error)
    /\ series_attempt.session["param_titles"] # series_attempt.committed["param_titles"]
    /\ series_attempt.session["specs"] # series_attempt.committed["specs"]

(* Claims about the 360-only restrictions, checked under SpecOnly.         *)

(* C32: in 360-only mode the photo-metadata stage calls get_pic_list for   *)
(* no spec that has a panorama colour row and only for categories of the   *)
(* configured list, and the photo-download stage takes no Photo row of     *)
(* such a spec or of another category; with 360-only off every spec and    *)
(* category is listed and every Photo row of the series is taken.          *)
C32_RestrictedIn360Only ==
    /\ only_360.pc \in {"photo_download", "done"} =>
          IF only_360.photo_360_only
          THEN \A request \in only_360.listed :
                  /\ request[1] \notin only_360.panorama_spec_ids
                  /\ request[2] \in only_360.photo_360_only_categories
          ELSE only_360.listed = Ids \X CategoryIds
    /\ only_360.pc = "done" =>
          IF only_360.photo_360_only
          THEN \A row \in only_360.selected :
                  /\ row.specification_id \notin only_360.panorama_spec_ids
                  /\ row.category_id \in only_360.photo_360_only_categories
          ELSE only_360.selected = only_360.photo_table

(* 360-only is on, a spec has panorama colours and another has none, a     *)
(* category is outside the list: requests were made, and stored rows of    *)
(* the spec with panorama colours and of the other category were left out  *)
(* of the download while some row was taken.                               *)
C32_Witness ==
    /\ only_360.pc = "done"
    /\ only_360.photo_360_only
    /\ only_360.panorama_spec_ids # {}
    /\ only_360.listed # {}
    /\ only_360.selected # {}
    /\ \E row \in only_360.photo_table \ only_360.selected :
          row.specification_id \in only_360.panorama_spec_ids
    /\ \E row \in only_360.photo_table \ only_360.selected :
          row.category_id \notin only_360.photo_360_only_categories

====
